---- MODULE Spec2Model ----
(***************************************************************************)
(* Model of the dynamic authorization engine of the HRIS backend:          *)
(*   src/src/middleware/authorizeFeature.js      (permission cache,        *)
(*       authorizeFeature middleware, canPerform, getAllPermissions,       *)
(*       setPermission, setRole)                                           *)
(*   src/src/middleware/checkApprovalAuthority.js (canApprove,             *)
(*       checkAuthority)                                                   *)
(* and of the routes that change the status of a request:                  *)
(*   src/unnamed/part_001        (PUT /requests/:id)                       *)
(*   src/src/routes/leave.js     (PUT /leave/:id/approve)                  *)
(*   src/src/middleware/checkAccess.js                                     *)
(*                                                                         *)
(* Every async function is cut at its awaits: the code between two awaits  *)
(* runs to completion on the Node.js event loop, so each action below is   *)
(* one such run (a call up to its first await, or the processing of one    *)
(* DynamoDB response up to the next await or the return to the caller).    *)
(*                                                                         *)
(* Conventions for JavaScript values:                                      *)
(*   - accessLevel 0 stands for a missing (undefined) accessLevel: both    *)
(*     are falsy in `!user.accessLevel` and both fail `>= requiredLevel`   *)
(*     for every required level 1..5;                                      *)
(*   - permissionsCache.timestamp 0 stands for null (`!timestamp`);        *)
(*   - an optional object field is a record [present, ...];                *)
(*   - the clock unit is one minute.                                       *)
(***************************************************************************)
EXTENDS Integers, Sequences, FiniteSets, TLC

VARIABLES now, store, held, permissionsCache, calls, approval,
          requests, LeaveRequests, LeaveBalances, runs,
          hris_leave, jobs

\* held: the contents the two policy tables have had so far, one element for
\* each point in time at which they differed from before
\* the tables of the request and leave routes and their handler runs
workflow == <<requests, LeaveRequests, LeaveBalances, runs>>

\* the table of the newer leave router (orgChart.js lines 69-617), which holds
\* the leave requests and the balance items, and its handler runs
leaveRouter == <<hris_leave, jobs>>

vars ==
  <<now, store, held, permissionsCache, calls, approval, workflow, leaveRouter>>

-----------------------------------------------------------------------------
(* Bounds of the model *)

\* actors carry access levels 0 (missing) .. MaxAccessLevel
MaxAccessLevel == 5

\* the clock runs from 1 to MaxTime minutes
MaxTime == 7

\* concurrent calls in flight in one process
MaxInFlight == 2

-----------------------------------------------------------------------------
(* Approval authority resolver: checkApprovalAuthority.js *)

\* the request types canApprove names, and one it does not
RequestTypes ==
  {"leave", "training", "equipment", "expense", "document", "travel",
   "expense-high", "policy-exception", "security-access", "salary-change",
   "unlisted-type"}

Departments == {"engineering", "sales"}

AccessLevels == 0..MaxAccessLevel

ManagerApprovableWithExpenseHigh ==
  {"leave", "training", "equipment", "expense", "expense-high", "document",
   "travel"}

\* case labels of the switch that return true (lines 32-38)
ManagerApprovable ==
  {"leave", "training", "equipment", "expense", "document", "travel"}

canApproveLevel4AllowsAll(requestType, accessLevel, isSameDept) ==
  IF accessLevel >= 5 THEN TRUE
  ELSE IF accessLevel = 4 THEN TRUE
  ELSE IF accessLevel = 3 /\ isSameDept
       THEN requestType \in ManagerApprovable
  ELSE FALSE

canApproveLevel3AnyDept(requestType, accessLevel, isSameDept) ==
  IF accessLevel >= 5 THEN TRUE
  ELSE IF accessLevel = 4
       THEN (IF requestType = "expense-high" THEN FALSE ELSE TRUE)
  ELSE IF accessLevel = 3
       THEN requestType \in ManagerApprovable
  ELSE FALSE

canApprove(requestType, accessLevel, isSameDept) ==
  IF accessLevel >= 5 THEN TRUE
  ELSE IF accessLevel = 4
       THEN (IF requestType = "expense-high" THEN FALSE ELSE TRUE)
  ELSE IF accessLevel = 3 /\ isSameDept
       THEN requestType \in ManagerApprovable
  ELSE FALSE

\* the `req` objects handed to checkAuthority: req.user absent, or a user
\* record with or without an id
Requests ==
  [user : {FALSE}, id : {FALSE}, accessLevel : {0}, department : {"engineering"}]
  \cup
  [user : {TRUE}, id : BOOLEAN, accessLevel : AccessLevels,
   department : Departments]

checkAuthorityLevel3AnyDept(req, employeeDepartment) ==
  IF ~req.user \/ ~req.id THEN FALSE
  ELSE IF req.accessLevel >= 5 THEN TRUE
  ELSE IF req.accessLevel = 4 THEN TRUE
  ELSE IF req.accessLevel = 3 THEN TRUE
  ELSE FALSE

checkAuthority(req, employeeDepartment) ==
  IF ~req.user \/ ~req.id THEN FALSE
  ELSE LET userAccessLevel == req.accessLevel
           userDepartment  == req.department
           isSameDept      == userDepartment = employeeDepartment
       IN IF userAccessLevel >= 5 THEN TRUE
          ELSE IF userAccessLevel = 4 THEN TRUE
          ELSE IF userAccessLevel = 3 THEN isSameDept
          ELSE FALSE

NoApproval ==
  [fn |-> "none", requestType |-> "leave", accessLevel |-> 0,
   isSameDept |-> FALSE,
   req |-> [user |-> FALSE, id |-> FALSE, accessLevel |-> 0,
            department |-> "engineering"],
   employeeDepartment |-> "engineering", result |-> FALSE]

-----------------------------------------------------------------------------
(* Decision engine and permission cache: authorizeFeature.js *)

\* cache TTL in minutes (5 * 60 * 1000 ms)
ttl == 5

\* requiredLevel is validated to 1..5 before setPermission is called
MaxRequiredLevel == 5

\* built-in table: feature name -> defaultLevel
defaultFeaturePermissions ==
     "employee.view" :> 1
  @@ "employee.view.all" :> 3
  @@ "employee.edit" :> 3
  @@ "employee.edit.all" :> 4
  @@ "employee.create" :> 4
  @@ "employee.delete" :> 5
  @@ "requests.create" :> 1
  @@ "requests.approve" :> 3
  @@ "requests.view.all" :> 3
  @@ "requests.manage" :> 4
  @@ "documents.upload" :> 1
  @@ "documents.view" :> 1
  @@ "documents.view.all" :> 4
  @@ "documents.manage" :> 4
  @@ "documents.delete" :> 4
  @@ "policies.view" :> 1
  @@ "policies.create" :> 4
  @@ "policies.update" :> 4
  @@ "policies.delete" :> 5
  @@ "policies.manage" :> 4
  @@ "training.enroll" :> 1
  @@ "training.view" :> 1
  @@ "training.create" :> 3
  @@ "training.manage" :> 3
  @@ "training.delete" :> 4
  @@ "training.report" :> 4
  @@ "jobs.view" :> 1
  @@ "jobs.apply" :> 1
  @@ "jobs.post" :> 4
  @@ "jobs.manage" :> 4
  @@ "assets.assign" :> 3
  @@ "assets.create" :> 3
  @@ "assets.manage" :> 3
  @@ "assets.delete" :> 4
  @@ "analytics.basic" :> 3
  @@ "analytics.advanced" :> 4
  @@ "analytics.export" :> 4
  @@ "system.settings" :> 5
  @@ "system.users" :> 5
  @@ "system.logs" :> 5
  @@ "system.permissions" :> 5

\* feature names requested in the model: two of the built-in table (default
\* levels 1 and 4) and one that the table does not have
Features == {"documents.upload", "documents.delete", "reports.custom"}

\* role ids: two that may be stored, one that never is
StoredRoleIds == {"r1", "r2"}
RoleIds == StoredRoleIds \cup {"r9"}

EmptyMap == [x \in {} |-> 0]

EmptyCache == [timestamp |-> 0, permissions |-> EmptyMap, roles |-> EmptyMap]

\* actor records (req.user / the user argument of canPerform)
NoUser ==
  [user |-> FALSE, id |-> FALSE, accessLevel |-> 0,
   permissions |-> [present |-> FALSE, granted |-> {}],
   roles |-> [present |-> FALSE, list |-> <<>>]]

\* the staleness test, as written three times in the source
authorizeFeatureStale(c, t) == c.timestamp = 0 \/ (t - c.timestamp) > ttl

canPerformStaleNonStrict(c, t) == c.timestamp = 0 \/ (t - c.timestamp) >= ttl

canPerformStale(c, t) == c.timestamp = 0 \/ (t - c.timestamp) > ttl

getAllPermissionsStale(c, t) == c.timestamp = 0 \/ (t - c.timestamp) > ttl

DefaultRequiredLevelOpen(featureName) ==
  IF featureName \in DOMAIN defaultFeaturePermissions
     /\ defaultFeaturePermissions[featureName] # 0
  THEN defaultFeaturePermissions[featureName]
  ELSE 1

\* defaultFeaturePermissions[featureName]?.defaultLevel || 5
DefaultRequiredLevel(featureName) ==
  IF featureName \in DOMAIN defaultFeaturePermissions
     /\ defaultFeaturePermissions[featureName] # 0
  THEN defaultFeaturePermissions[featureName]
  ELSE 5

RequiredLevelDefaultFirst(c, featureName) ==
  IF featureName \in DOMAIN defaultFeaturePermissions
  THEN DefaultRequiredLevel(featureName)
  ELSE IF featureName \in DOMAIN c.permissions
  THEN c.permissions[featureName].requiredLevel
  ELSE 5

\* permissionInfo.requiredLevel:
\* permissionsCache.permissions[featureName] || { requiredLevel: default || 5 }
RequiredLevel(c, featureName) ==
  IF featureName \in DOMAIN c.permissions
  THEN c.permissions[featureName].requiredLevel
  ELSE DefaultRequiredLevel(featureName)

RECURSIVE RoleLoopNoWildcard(_, _, _, _)
RoleLoopNoWildcard(c, featureName, list, i) ==
  IF i > Len(list) THEN FALSE
  ELSE LET roleId == list[i]
       IN IF roleId \in DOMAIN c.roles
             /\ featureName \in c.roles[roleId].permissions
          THEN TRUE
          ELSE RoleLoopNoWildcard(c, featureName, list, i + 1)

\* for (const roleId of roles): first role that grants the feature returns
RECURSIVE RoleLoop(_, _, _, _)
RoleLoop(c, featureName, list, i) ==
  IF i > Len(list) THEN FALSE
  ELSE LET roleId == list[i]
       IN IF roleId \in DOMAIN c.roles
             /\ (featureName \in c.roles[roleId].permissions
                 \/ "*" \in c.roles[roleId].permissions)
          THEN TRUE
          ELSE RoleLoop(c, featureName, list, i + 1)

RoleGrants(c, featureName, roles) ==
  roles.present /\ Len(roles.list) > 0 /\ RoleLoop(c, featureName, roles.list, 1)

\* the value of a role item's `permissions` attribute that is truthy and not
\* an array: it has no includes(), so line 152 / 214 raises a TypeError
NotAnArray == {"#not-an-array"}

\* the roles loop raises: it comes to such a role before a role that grants
RECURSIVE RoleLoopThrows(_, _, _, _)
RoleLoopThrows(c, featureName, list, i) ==
  IF i > Len(list) THEN FALSE
  ELSE LET roleId == list[i]
       IN IF roleId \in DOMAIN c.roles
             /\ c.roles[roleId].permissions = NotAnArray
          THEN TRUE
          ELSE IF roleId \in DOMAIN c.roles
                  /\ (featureName \in c.roles[roleId].permissions
                      \/ "*" \in c.roles[roleId].permissions)
          THEN FALSE
          ELSE RoleLoopThrows(c, featureName, list, i + 1)

HasOverride(user, featureName) ==
  user.permissions.present /\ featureName \in user.permissions.granted

\* an error is raised inside the try block after the refresh: the override
\* test did not return, the actor lists roles and the loop raises
EvaluationThrows(c, featureName, user) ==
  /\ ~HasOverride(user, featureName)
  /\ user.roles.present
  /\ Len(user.roles.list) > 0
  /\ RoleLoopThrows(c, featureName, user.roles.list, 1)

canPerformDecisionNoOverride(c, featureName, user) ==
  IF RoleGrants(c, featureName, user.roles) THEN TRUE
  ELSE user.accessLevel >= RequiredLevel(c, featureName)

\* canPerform after its refresh: lines 196-222
canPerformDecision(c, featureName, user) ==
  IF HasOverride(user, featureName) THEN TRUE
  ELSE IF RoleGrants(c, featureName, user.roles) THEN TRUE
  ELSE user.accessLevel >= RequiredLevel(c, featureName)

\* the bodies the middleware sends: lines 121-124, 167-170, 173-176 (a run
\* that calls next() sends none)
authorizeFeatureResponse(outcome) ==
  CASE outcome = "401" ->
         [status |-> 401, success |-> FALSE,
          message |-> "Authentication required"]
    [] outcome = "403" ->
         [status |-> 403, success |-> FALSE,
          message |-> "You do not have permission to access this feature"]
    [] outcome = "500" ->
         [status |-> 500, success |-> FALSE,
          message |-> "Internal server error while checking feature access"]
    [] OTHER -> [status |-> 0, success |-> TRUE, message |-> ""]

authorizeFeatureDecisionTellsRule(c, featureName, user) ==
  IF HasOverride(user, featureName) THEN "next"
  ELSE IF RoleGrants(c, featureName, user.roles) THEN "next"
  ELSE IF user.accessLevel >= RequiredLevel(c, featureName) THEN "next"
  ELSE IF user.roles.present /\ Len(user.roles.list) > 0 THEN "403"
  ELSE "401"

authorizeFeatureDecisionStrictLevel(c, featureName, user) ==
  IF HasOverride(user, featureName) THEN "next"
  ELSE IF RoleGrants(c, featureName, user.roles) THEN "next"
  ELSE IF user.accessLevel > RequiredLevel(c, featureName) THEN "next"
  ELSE "403"

\* the middleware after its refresh: lines 133-170
authorizeFeatureDecision(c, featureName, user) ==
  IF HasOverride(user, featureName) THEN "next"
  ELSE IF RoleGrants(c, featureName, user.roles) THEN "next"
  ELSE IF user.accessLevel >= RequiredLevel(c, featureName) THEN "next"
  ELSE "403"

\* getAllPermissions after its refresh: lines 238-250
getAllPermissionsListing(c) ==
  [n \in (DOMAIN defaultFeaturePermissions) \cup (DOMAIN c.permissions) |->
     IF n \in DOMAIN c.permissions
     THEN [defaultLevel |-> c.permissions[n].requiredLevel, isCustom |-> TRUE]
     ELSE [defaultLevel |-> defaultFeaturePermissions[n], isCustom |-> FALSE]]

-----------------------------------------------------------------------------
(* The process: calls in flight, the PolicyStore tables, the clock *)

Slots == 1..MaxInFlight

\* a call slot; calledAt and timestampAtCall record the clock and the cache
\* timestamp the call started with, refresh what became of the
\* refreshPermissionsCache() it invoked ("none": it invoked none)
Idle ==
  [op |-> "idle", pc |-> "idle", featureName |-> "-", user |-> NoUser,
   permissionName |-> "-", requiredLevel |-> 0,
   roleId |-> "-", rolePermissions |-> {},
   permissionsResult |-> EmptyMap, rolesResult |-> EmptyMap,
   refresh |-> "none", outcome |-> "-", listing |-> EmptyMap,
   calledAt |-> 0, timestampAtCall |-> 0]

NewCall(op) ==
  [Idle EXCEPT !.op = op, !.calledAt = now,
               !.timestampAtCall = permissionsCache.timestamp]

\* lines 35-46: both maps rebuilt from the scan results, then the timestamp
UpdateCacheKeepPermissions(c, permissionsResult, rolesResult, t) ==
  [timestamp |-> t, permissions |-> c.permissions, roles |-> rolesResult]

UpdateCacheClearsOnRepeat(c, permissionsResult, rolesResult, t) ==
  [timestamp |-> t,
   permissions |-> IF c.permissions = permissionsResult
                   THEN EmptyMap ELSE permissionsResult,
   roles |-> rolesResult]

UpdateCache(c, permissionsResult, rolesResult, t) ==
  [timestamp |-> t, permissions |-> permissionsResult, roles |-> rolesResult]

\* lines 49-52: the catch block logs and returns false
CacheAfterFailureCleared(c) == EmptyCache

CacheAfterFailure(c) == c

ResumedErrorEscapes(call, c, refreshResult) ==
  LET r == [call EXCEPT !.pc = "done", !.refresh = refreshResult,
                        !.permissionsResult = EmptyMap,
                        !.rolesResult = EmptyMap]
  IN CASE call.op = "canPerform" ->
            [r EXCEPT !.outcome =
               IF EvaluationThrows(c, call.featureName, call.user)
               THEN "error"
               ELSE IF canPerformDecision(c, call.featureName, call.user)
               THEN "true" ELSE "false"]
       [] call.op = "authorizeFeature" ->
            [r EXCEPT !.outcome =
               IF EvaluationThrows(c, call.featureName, call.user)
               THEN "error"
               ELSE authorizeFeatureDecision(c, call.featureName, call.user)]
       [] call.op = "getAllPermissions" ->
            [r EXCEPT !.outcome = "listed",
                      !.listing = getAllPermissionsListing(c)]
       [] OTHER ->
            [r EXCEPT !.outcome = "true"]

\* the caller's code after `await refreshPermissionsCache()`, reading cache c
\* (the scan results were locals of the refresh); an error raised there is
\* caught: canPerform returns false (lines 223-226), the middleware answers
\* 500 (lines 171-177)
Resumed(call, c, refreshResult) ==
  LET r == [call EXCEPT !.pc = "done", !.refresh = refreshResult,
                        !.permissionsResult = EmptyMap,
                        !.rolesResult = EmptyMap]
  IN CASE call.op = "canPerform" ->
            [r EXCEPT !.outcome =
               IF EvaluationThrows(c, call.featureName, call.user)
               THEN "false"
               ELSE IF canPerformDecision(c, call.featureName, call.user)
               THEN "true" ELSE "false"]
       [] call.op = "authorizeFeature" ->
            [r EXCEPT !.outcome =
               IF EvaluationThrows(c, call.featureName, call.user)
               THEN "500"
               ELSE authorizeFeatureDecision(c, call.featureName, call.user)]
       [] call.op = "getAllPermissions" ->
            [r EXCEPT !.outcome = "listed",
                      !.listing = getAllPermissionsListing(c)]
       [] OTHER -> \* setPermission, setRole: return true (lines 280, 310)
            [r EXCEPT !.outcome = "true"]

\* refreshPermissionsCache() up to its first await (line 27)
StartRefresh(call) == [call EXCEPT !.pc = "scanPermissions", !.refresh = "pending"]

authorizeFeatureCallNoIdCheck(s, featureName, user) ==
  /\ calls[s].op = "idle"
  /\ LET call == [NewCall("authorizeFeature") EXCEPT
                    !.featureName = featureName, !.user = user]
     IN calls' = [calls EXCEPT ![s] =
          IF ~user.user
          THEN [call EXCEPT !.pc = "done", !.outcome = "401"]
          ELSE IF authorizeFeatureStale(permissionsCache, now)
          THEN StartRefresh(call)
          ELSE Resumed(call, permissionsCache, "none")]
  /\ UNCHANGED <<now, store, held, permissionsCache, approval, workflow,
                 leaveRouter>>

authorizeFeatureCallWaitsForRefresh(s, featureName, user) ==
  /\ calls[s].op = "idle"
  /\ LET call == [NewCall("authorizeFeature") EXCEPT
                    !.featureName = featureName, !.user = user]
     IN calls' = [calls EXCEPT ![s] =
          IF ~user.user \/ ~user.id
          THEN [call EXCEPT !.pc = "done", !.outcome = "401"]
          ELSE IF authorizeFeatureStale(permissionsCache, now)
          THEN IF \E o \in Slots : calls[o].refresh = "pending"
               THEN [call EXCEPT !.pc = "awaitRefresh"]
               ELSE StartRefresh(call)
          ELSE Resumed(call, permissionsCache, "none")]
  /\ UNCHANGED <<now, store, held, permissionsCache, approval, workflow,
                 leaveRouter>>

\* authorizeFeature(featureName)(req, res, next) up to its first await
authorizeFeatureCall(s, featureName, user) ==
  /\ calls[s].op = "idle"
  /\ LET call == [NewCall("authorizeFeature") EXCEPT
                    !.featureName = featureName, !.user = user]
     IN calls' = [calls EXCEPT ![s] =
          IF ~user.user \/ ~user.id
          THEN [call EXCEPT !.pc = "done", !.outcome = "401"]
          ELSE IF authorizeFeatureStale(permissionsCache, now)
          THEN StartRefresh(call)
          ELSE Resumed(call, permissionsCache, "none")]
  /\ UNCHANGED <<now, store, held, permissionsCache, approval, workflow,
                 leaveRouter>>

canPerformCallNoGuard(s, featureName, user) ==
  /\ calls[s].op = "idle"
  /\ LET call == [NewCall("canPerform") EXCEPT
                    !.featureName = featureName, !.user = user]
     IN calls' = [calls EXCEPT ![s] =
          IF canPerformStale(permissionsCache, now)
          THEN StartRefresh(call)
          ELSE Resumed(call, permissionsCache, "none")]
  /\ UNCHANGED <<now, store, held, permissionsCache, approval, workflow,
                 leaveRouter>>

\* authorizeFeature.canPerform(featureName, user) up to its first await
canPerformCall(s, featureName, user) ==
  /\ calls[s].op = "idle"
  /\ LET call == [NewCall("canPerform") EXCEPT
                    !.featureName = featureName, !.user = user]
     IN calls' = [calls EXCEPT ![s] =
          IF ~user.user
             \/ (user.accessLevel = 0 /\ ~user.permissions.present
                 /\ ~user.roles.present)
          THEN [call EXCEPT !.pc = "done", !.outcome = "false"]
          ELSE IF canPerformStale(permissionsCache, now)
          THEN StartRefresh(call)
          ELSE Resumed(call, permissionsCache, "none")]
  /\ UNCHANGED <<now, store, held, permissionsCache, approval, workflow,
                 leaveRouter>>

\* authorizeFeature.getAllPermissions() up to its first await
getAllPermissionsCall(s) ==
  /\ calls[s].op = "idle"
  /\ LET call == NewCall("getAllPermissions")
     IN calls' = [calls EXCEPT ![s] =
          IF getAllPermissionsStale(permissionsCache, now)
          THEN StartRefresh(call)
          ELSE Resumed(call, permissionsCache, "none")]
  /\ UNCHANGED <<now, store, held, permissionsCache, approval, workflow,
                 leaveRouter>>

\* authorizeFeature.setPermission(...) up to `await dynamodb.put` (line 275)
setPermissionCall(s, permissionName, requiredLevel) ==
  /\ calls[s].op = "idle"
  /\ calls' = [calls EXCEPT ![s] =
       [NewCall("setPermission") EXCEPT
          !.pc = "put", !.permissionName = permissionName,
          !.requiredLevel = requiredLevel]]
  /\ UNCHANGED <<now, store, held, permissionsCache, approval, workflow,
                 leaveRouter>>

\* authorizeFeature.setRole(...) up to `await dynamodb.put` (line 305)
setRoleCall(s, roleId, permissions) ==
  /\ calls[s].op = "idle"
  /\ calls' = [calls EXCEPT ![s] =
       [NewCall("setRole") EXCEPT
          !.pc = "put", !.roleId = roleId, !.rolePermissions = permissions]]
  /\ UNCHANGED <<now, store, held, permissionsCache, approval, workflow,
                 leaveRouter>>

\* the table after dynamodb.put(Item): the item replaces the one of its key
PutItem(table, key, item) ==
  [k \in (DOMAIN table) \cup {key} |-> IF k = key THEN item ELSE table[k]]

\* the put succeeded: the item is stored, the forced refresh starts
putSucceeds(s) ==
  /\ calls[s].pc = "put"
  /\ store' =
       IF calls[s].op = "setPermission"
       THEN [store EXCEPT !.permissions =
               PutItem(@, calls[s].permissionName,
                       [requiredLevel |-> calls[s].requiredLevel])]
       ELSE [store EXCEPT !.roles =
               PutItem(@, calls[s].roleId,
                       [permissions |-> calls[s].rolePermissions])]
  /\ held' = held \cup {store'}
  /\ calls' = [calls EXCEPT ![s] = StartRefresh(@)]
  /\ UNCHANGED <<now, permissionsCache, approval, workflow, leaveRouter>>

\* the put failed: the catch block returns false (lines 281-284, 311-314)
putFails(s) ==
  /\ calls[s].pc = "put"
  /\ calls' = [calls EXCEPT ![s] = [@ EXCEPT !.pc = "done", !.outcome = "false"]]
  /\ UNCHANGED <<now, store, held, permissionsCache, approval, workflow,
                 leaveRouter>>

scanPermissionsSucceedsAppliesEarly(s) ==
  /\ calls[s].pc = "scanPermissions"
  /\ permissionsCache' =
       [permissionsCache EXCEPT !.permissions = store.permissions]
  /\ calls' = [calls EXCEPT ![s] =
       [@ EXCEPT !.pc = "scanRoles", !.permissionsResult = store.permissions]]
  /\ UNCHANGED <<now, store, held, approval, workflow, leaveRouter>>

\* the permissions scan returned its items; the roles scan is sent (line 33)
scanPermissionsSucceeds(s) ==
  /\ calls[s].pc = "scanPermissions"
  /\ calls' = [calls EXCEPT ![s] =
       [@ EXCEPT !.pc = "scanRoles", !.permissionsResult = store.permissions]]
  /\ UNCHANGED <<now, store, held, permissionsCache, approval, workflow,
                 leaveRouter>>

scanPermissionsFailsThrows(s) ==
  /\ calls[s].pc = "scanPermissions"
  /\ calls' = [calls EXCEPT ![s] =
       [@ EXCEPT !.pc = "done", !.refresh = "failed", !.outcome = "error"]]
  /\ UNCHANGED <<now, store, held, permissionsCache, approval, workflow,
                 leaveRouter>>

\* the permissions scan failed: refresh returns false, the caller goes on
scanPermissionsFails(s) ==
  /\ calls[s].pc = "scanPermissions"
  /\ permissionsCache' = CacheAfterFailure(permissionsCache)
  /\ calls' = [calls EXCEPT ![s] = Resumed(@, permissionsCache', "failed")]
  /\ UNCHANGED <<now, store, held, approval, workflow, leaveRouter>>

\* DynamoDB reads the roles table for the scan in flight
scanRolesReads(s) ==
  /\ calls[s].pc = "scanRoles"
  /\ calls' = [calls EXCEPT ![s] =
       [@ EXCEPT !.pc = "rolesResult", !.rolesResult = store.roles]]
  /\ UNCHANGED <<now, store, held, permissionsCache, approval, workflow,
                 leaveRouter>>

\* the roles scan returned: the cache is rebuilt, refresh returns true, the
\* caller goes on (lines 35-48)
scanRolesSucceeds(s) ==
  /\ calls[s].pc = "rolesResult"
  /\ permissionsCache' =
       UpdateCache(permissionsCache, calls[s].permissionsResult,
                   calls[s].rolesResult, now)
  /\ calls' = [calls EXCEPT ![s] = Resumed(@, permissionsCache', "ok")]
  /\ UNCHANGED <<now, store, held, approval, workflow, leaveRouter>>

\* the roles scan failed: refresh returns false, the caller goes on
scanRolesFails(s) ==
  /\ calls[s].pc \in {"scanRoles", "rolesResult"}
  /\ permissionsCache' = CacheAfterFailure(permissionsCache)
  /\ calls' = [calls EXCEPT ![s] = Resumed(@, permissionsCache', "failed")]
  /\ UNCHANGED <<now, store, held, approval, workflow, leaveRouter>>

\* the caller has its result; the slot is free again
Return(s) ==
  /\ calls[s].pc = "done"
  /\ calls' = [calls EXCEPT ![s] = Idle]
  /\ UNCHANGED <<now, store, held, permissionsCache, approval, workflow,
                 leaveRouter>>

\* Date.now() advances
Tick ==
  /\ now < MaxTime
  /\ now' = now + 1
  /\ UNCHANGED <<store, held, permissionsCache, calls, approval, workflow,
                 leaveRouter>>

\* canApprove(requestType, accessLevel, isSameDept) is called
canApproveCall(requestType, accessLevel, isSameDept) ==
  /\ approval' = [NoApproval EXCEPT
       !.fn = "canApprove", !.requestType = requestType,
       !.accessLevel = accessLevel, !.isSameDept = isSameDept,
       !.result = canApprove(requestType, accessLevel, isSameDept)]
  /\ UNCHANGED <<now, store, held, permissionsCache, calls, workflow, leaveRouter>>

\* checkAuthority(req, employeeDepartment) is called
checkAuthorityCall(req, employeeDepartment) ==
  /\ approval' = [NoApproval EXCEPT
       !.fn = "checkAuthority", !.req = req,
       !.employeeDepartment = employeeDepartment,
       !.result = checkAuthority(req, employeeDepartment)]
  /\ UNCHANGED <<now, store, held, permissionsCache, calls, workflow, leaveRouter>>

-----------------------------------------------------------------------------
(* Routes that change the status of a request: part_001, leave.js *)

\* req.user as verifyToken leaves it, with the access_level of the user's
\* item in the users table (0: the table holds no item for the id)
NoStaff ==
  [id |-> "-", accessLevel |-> 0, department |-> "-", access_level |-> 0]

NoItem == [status |-> "-", managerId |-> "-", approvedBy |-> "-"]

NoResponse == [status |-> 0, message |-> "-"]

\* a handler run: the route, the place it waits at, req.user, req.params.id,
\* req.body.status, the item it read and the response it sent
IdleRun ==
  [route |-> "idle", pc |-> "idle", user |-> NoStaff, requiredLevel |-> 0,
   id |-> "-", status |-> "-", item |-> NoItem, response |-> NoResponse]

Responded(run, status, message) ==
  [run EXCEPT !.pc = "done",
              !.response = [status |-> status, message |-> message]]

\* what `require('../middleware/checkApprovalAuthority')` evaluates to: the
\* object literal of checkApprovalAuthority.js lines 98-101
checkApprovalAuthorityExport == "object"

\* PUT /requests/:id through verifyToken up to the await of checkAccess(3)
requestsPutCall(h, user, id, status) ==
  /\ runs[h].route = "idle"
  /\ runs' = [runs EXCEPT ![h] =
       [IdleRun EXCEPT !.route = "requests.put", !.pc = "getUser",
                       !.user = user, !.requiredLevel = 3,
                       !.id = id, !.status = status]]
  /\ UNCHANGED <<now, store, held, permissionsCache, calls, approval,
                 requests, LeaveRequests, LeaveBalances, leaveRouter>>

\* PUT /leave/:id/approve (leave.js) up to the await of checkAccess(4)
leaveApproveCall(h, user, id, status) ==
  /\ runs[h].route = "idle"
  /\ runs' = [runs EXCEPT ![h] =
       [IdleRun EXCEPT !.route = "leave.approve", !.pc = "getUser",
                       !.user = user, !.requiredLevel = 4,
                       !.id = id, !.status = status]]
  /\ UNCHANGED <<now, store, held, permissionsCache, calls, approval,
                 requests, LeaveRequests, LeaveBalances, leaveRouter>>

\* the handler behind checkAccess, up to its first await
HandlerStarts(run) ==
  IF run.route = "requests.put"
  THEN \* part_001 lines 150-168
       IF run.status \notin {"approved", "rejected", "pending"}
       THEN Responded(run, 400, "Invalid status")
       ELSE [run EXCEPT !.pc = "query"]
  ELSE \* leave.js lines 124-140
       IF run.status \notin {"approved", "rejected"}
       THEN Responded(run, 400,
                      "Invalid status. Must be \"approved\" or \"rejected\".")
       ELSE [run EXCEPT !.pc = "getLeave"]

\* checkAccess: the users table answered (checkAccess.js lines 24-44)
checkAccessGetReturns(h) ==
  /\ runs[h].pc = "getUser"
  /\ runs' = [runs EXCEPT ![h] =
       IF @.user.access_level = 0
       THEN Responded(@, 403, "User not found")
       ELSE IF @.user.access_level < @.requiredLevel
       THEN Responded(@, 403, "Insufficient access level")
       ELSE HandlerStarts(@)]
  /\ UNCHANGED <<now, store, held, permissionsCache, calls, approval,
                 requests, LeaveRequests, LeaveBalances, leaveRouter>>

\* checkAccess: the get failed (checkAccess.js lines 45-51)
checkAccessGetFails(h) ==
  /\ runs[h].pc = "getUser"
  /\ runs' = [runs EXCEPT ![h] = Responded(@, 500, "Internal server error")]
  /\ UNCHANGED <<now, store, held, permissionsCache, calls, approval,
                 requests, LeaveRequests, LeaveBalances, leaveRouter>>

\* PUT /requests/:id: the query answered (part_001 lines 168-181). The call
\* of line 177 applies the module's export; it is an object, so the call
\* raises a TypeError and the catch block of lines 213-216 answers; lines
\* 179-212 are never reached
requestsQueryReturns(h) ==
  /\ runs[h].pc = "query"
  /\ LET run == runs[h]
     IN runs' = [runs EXCEPT ![h] =
          IF run.id \notin DOMAIN requests
          THEN Responded(run, 404, "Request not found")
          ELSE LET request == requests[run.id]
                   read == [run EXCEPT !.item.status = request.status]
               IN IF checkApprovalAuthorityExport # "function"
                  THEN Responded(read, 500, "Internal server error")
                  ELSE [read EXCEPT !.pc = "checkApprovalAuthority"]]
  /\ UNCHANGED <<now, store, held, permissionsCache, calls, approval,
                 requests, LeaveRequests, LeaveBalances, leaveRouter>>

\* PUT /requests/:id: the query failed (part_001 lines 213-216)
requestsQueryFails(h) ==
  /\ runs[h].pc = "query"
  /\ runs' = [runs EXCEPT ![h] = Responded(@, 500, "Internal server error")]
  /\ UNCHANGED <<now, store, held, permissionsCache, calls, approval,
                 requests, LeaveRequests, LeaveBalances, leaveRouter>>

\* PUT /leave/:id/approve: the handler on the item the get returned
\* (leave.js lines 150-166): the managerId test, then the pending test
leaveRequestRead(run, leaveRequest) ==
  LET read == [run EXCEPT !.item =
                 [status |-> leaveRequest.status,
                  managerId |-> leaveRequest.managerId,
                  approvedBy |-> leaveRequest.approvedBy]]
  IN IF leaveRequest.managerId # "-"
        /\ leaveRequest.managerId # run.user.id
     THEN Responded(read, 403,
            "You are not authorized to approve this leave request.")
     ELSE IF leaveRequest.status # "pending"
     THEN Responded(read, 403,
            "Leave request is not pending. Cannot approve or reject")
     ELSE [read EXCEPT !.pc = "updateLeave"]

leaveGetReturnsNoPendingTest(h) ==
  /\ runs[h].pc = "getLeave"
  /\ LET run == runs[h]
     IN runs' = [runs EXCEPT ![h] =
          IF run.id \notin DOMAIN LeaveRequests
          THEN Responded(run, 404, "Leave request not found")
          ELSE LET leaveRequest == LeaveRequests[run.id]
                   read == [run EXCEPT !.item =
                              [status |-> leaveRequest.status,
                               managerId |-> leaveRequest.managerId,
                               approvedBy |-> leaveRequest.approvedBy]]
               IN IF leaveRequest.managerId # "-"
                     /\ leaveRequest.managerId # run.user.id
                  THEN Responded(read, 403,
                         "You are not authorized to approve this leave request.")
                  ELSE [read EXCEPT !.pc = "updateLeave"]]
  /\ UNCHANGED <<now, store, held, permissionsCache, calls, approval,
                 requests, LeaveRequests, LeaveBalances, leaveRouter>>

\* PUT /leave/:id/approve: the get of the leave request answered
\* (leave.js lines 137-187)
leaveGetReturns(h) ==
  /\ runs[h].pc = "getLeave"
  /\ LET run == runs[h]
     IN runs' = [runs EXCEPT ![h] =
          IF run.id \notin DOMAIN LeaveRequests
          THEN Responded(run, 404, "Leave request not found")
          ELSE leaveRequestRead(run, LeaveRequests[run.id])]
  /\ UNCHANGED <<now, store, held, permissionsCache, calls, approval,
                 requests, LeaveRequests, LeaveBalances, leaveRouter>>

\* PUT /leave/:id/approve: a get or an update failed (leave.js lines 200-207)
leaveAwaitFails(h) ==
  /\ runs[h].pc \in {"getLeave", "updateLeave"}
  /\ runs' = [runs EXCEPT ![h] = Responded(@, 500, "Internal server error")]
  /\ UNCHANGED <<now, store, held, permissionsCache, calls, approval,
                 requests, LeaveRequests, LeaveBalances, leaveRouter>>

\* the item after the update of leave.js lines 169-187 (an unconditional SET)
LeaveUpdated(item, status, managerId) ==
  [item EXCEPT !.status = status, !.approvedBy = managerId]

\* PUT /leave/:id/approve: the update was applied (leave.js lines 187-199).
\* For 'approved', line 191 evaluates `employeeId`, which the handler never
\* declares: a ReferenceError is raised before updateLeaveBalance is entered
\* and the catch block answers 500
leaveUpdateSucceeds(h) ==
  /\ runs[h].pc = "updateLeave"
  /\ LeaveRequests' = [LeaveRequests EXCEPT ![runs[h].id] =
       LeaveUpdated(@, runs[h].status, runs[h].user.id)]
  /\ runs' = [runs EXCEPT ![h] =
       IF @.status = "approved"
       THEN Responded(@, 500, "Internal server error")
       ELSE Responded(@, 200,
              "Leave request approved successfully, status rejected")]
  /\ UNCHANGED <<now, store, held, permissionsCache, calls, approval,
                 requests, LeaveBalances, leaveRouter>>

\* the response was sent; the slot serves the next request
runReturns(h) ==
  /\ runs[h].pc = "done"
  /\ runs' = [runs EXCEPT ![h] = IdleRun]
  /\ UNCHANGED <<now, store, held, permissionsCache, calls, approval,
                 requests, LeaveRequests, LeaveBalances, leaveRouter>>

-----------------------------------------------------------------------------
(* The newer leave router: orgChart.js lines 69-617 *)

\* the users table as the router reads it (user_id, manager_id, department);
\* no route of the model writes it. "-" is a missing manager_id; "gone" is a
\* manager_id without an item; lead1 and lead2 name each other
hris_users ==
     "emp1"  :> [manager_id |-> "mgr1",  department |-> "engineering"]
  @@ "emp2"  :> [manager_id |-> "gone",  department |-> "sales"]
  @@ "emp3"  :> [manager_id |-> "-",     department |-> "sales"]
  @@ "mgr1"  :> [manager_id |-> "hr1",   department |-> "engineering"]
  @@ "hr1"   :> [manager_id |-> "-",     department |-> "sales"]
  @@ "lead1" :> [manager_id |-> "lead2", department |-> "sales"]
  @@ "lead2" :> [manager_id |-> "lead1", department |-> "sales"]

\* getLeaveBalance's defaultBalance (lines 548-558), two of its five types
defaultBalance == [annual |-> 20, sick |-> 10]

\* at most MaxRequests leave requests are submitted
MaxRequests == 2

EmptyLeaveTable == [requests |-> EmptyMap, balances |-> EmptyMap]

NoRequestData ==
  [user_id |-> "-", leave_type |-> "-", days |-> 0, status |-> "-",
   approver_user_ids |-> <<>>, department |-> "-", approved_by |-> "-"]

\* a handler run of the router: req.user, req.params.id, req.body, the locals
\* approverUserIds and leaveRequest / req.requestData, and the response
IdleJob ==
  [route |-> "idle", pc |-> "idle", user |-> NoStaff, id |-> 0,
   status |-> "-", leaveType |-> "-", leaveDays |-> 0,
   approverUserIds |-> <<>>, requestData |-> NoRequestData,
   response |-> NoResponse]

\* POST /leave/request once verifyToken and authorizeFeature have called
\* next(), up to the await of getLeaveBalance's get (lines 84-120, 541);
\* wellFormed: the body has its four fields and dates that pass lines 104-116
leaveRequestCall(j, user, leaveType, leaveDays, wellFormed) ==
  /\ jobs[j].route = "idle"
  /\ Cardinality(DOMAIN hris_leave.requests)
       + Cardinality({k \in DOMAIN jobs : jobs[k].route = "leave.request"})
       < MaxRequests
  /\ LET job == [IdleJob EXCEPT !.route = "leave.request", !.user = user,
                                !.leaveType = leaveType,
                                !.leaveDays = leaveDays]
     IN jobs' = [jobs EXCEPT ![j] =
          IF ~wellFormed
          THEN Responded(job, 400, "Required fields missing or invalid dates")
          ELSE [job EXCEPT !.pc = "getBalance"]]
  /\ UNCHANGED <<now, store, held, permissionsCache, calls, approval,
                 workflow, hris_leave>>

\* the user whose balance item getLeaveBalance reads: the submitter
\* (line 120) or the user of the request being approved (line 278)
BalanceUser(job) ==
  IF job.route = "leave.request" THEN job.user.id ELSE job.requestData.user_id

\* the code after getLeaveBalance has its balance item: POST /request tests
\* the balance (lines 122-134); updateLeaveBalance sends its update (line 594)
AfterGetLeaveBalance(job, balance) ==
  IF job.route = "leave.request"
  THEN IF balance[job.leaveType] < job.leaveDays
       THEN Responded(job, 400, "Insufficient leave balance")
       ELSE [job EXCEPT !.pc = "getUser"]
  ELSE [job EXCEPT !.pc = "updateBalance"]

\* getLeaveBalance: the get answered (lines 541-568)
getLeaveBalanceGetReturns(j) ==
  /\ jobs[j].pc = "getBalance"
  /\ jobs' = [jobs EXCEPT ![j] =
       IF BalanceUser(@) \notin DOMAIN hris_leave.balances
       THEN [@ EXCEPT !.pc = "putBalance"]
       ELSE AfterGetLeaveBalance(@, hris_leave.balances[BalanceUser(@)])]
  /\ UNCHANGED <<now, store, held, permissionsCache, calls, approval,
                 workflow, hris_leave>>

\* getLeaveBalance: the put of the default balance was applied
\* (lines 560-565); it replaces whatever item the key holds by then
getLeaveBalancePutSucceeds(j) ==
  /\ jobs[j].pc = "putBalance"
  /\ hris_leave' = [hris_leave EXCEPT !.balances =
       PutItem(@, BalanceUser(jobs[j]), defaultBalance)]
  /\ jobs' = [jobs EXCEPT ![j] = AfterGetLeaveBalance(@, defaultBalance)]
  /\ UNCHANGED <<now, store, held, permissionsCache, calls, approval,
                 workflow>>

\* POST /request: the get of the submitter answered (lines 131-159)
leaveRequestUserReturns(j) ==
  /\ jobs[j].route = "leave.request"
  /\ jobs[j].pc = "getUser"
  /\ jobs' = [jobs EXCEPT ![j] =
       IF @.user.id \notin DOMAIN hris_users
       THEN Responded(@, 404, "User not found")
       ELSE LET user == hris_users[@.user.id]
            IN IF user.manager_id # "-"
               THEN [@ EXCEPT !.pc = "getManager",
                              !.approverUserIds = <<user.manager_id>>]
               ELSE [@ EXCEPT !.pc = "putRequest"]]
  /\ UNCHANGED <<now, store, held, permissionsCache, calls, approval,
                 workflow, hris_leave>>

leaveRequestManagerReturnsPushesManager(j) ==
  /\ jobs[j].pc = "getManager"
  /\ jobs' = [jobs EXCEPT ![j] =
       LET manager_id == hris_users[@.user.id].manager_id
       IN IF manager_id \in DOMAIN hris_users
             /\ hris_users[manager_id].manager_id # "-"
          THEN [@ EXCEPT !.pc = "putRequest",
                         !.approverUserIds = Append(@, manager_id)]
          ELSE [@ EXCEPT !.pc = "putRequest"]]
  /\ UNCHANGED <<now, store, held, permissionsCache, calls, approval,
                 workflow, hris_leave>>

\* POST /request: the get of the manager answered (lines 151-159)
leaveRequestManagerReturns(j) ==
  /\ jobs[j].pc = "getManager"
  /\ jobs' = [jobs EXCEPT ![j] =
       LET manager_id == hris_users[@.user.id].manager_id
       IN IF manager_id \in DOMAIN hris_users
             /\ hris_users[manager_id].manager_id # "-"
          THEN [@ EXCEPT !.pc = "putRequest",
                         !.approverUserIds =
                           Append(@, hris_users[manager_id].manager_id)]
          ELSE [@ EXCEPT !.pc = "putRequest"]]
  /\ UNCHANGED <<now, store, held, permissionsCache, calls, approval,
                 workflow, hris_leave>>

\* the leaveRequest object of lines 162-176
NewLeaveRequestItem(job) ==
  [user_id |-> job.user.id, leave_type |-> job.leaveType,
   days |-> job.leaveDays, status |-> "pending",
   approver_user_ids |-> job.approverUserIds,
   department |-> hris_users[job.user.id].department, approved_by |-> "-"]

\* POST /request: the put of the leave request was applied (lines 179-182);
\* the id is a fresh one
leaveRequestPutSucceeds(j) ==
  /\ jobs[j].pc = "putRequest"
  /\ LET id == Cardinality(DOMAIN hris_leave.requests) + 1
     IN /\ hris_leave' = [hris_leave EXCEPT !.requests =
             PutItem(@, id, NewLeaveRequestItem(jobs[j]))]
        /\ jobs' = [jobs EXCEPT ![j] =
             [@ EXCEPT !.pc = "putLog", !.id = id,
                       !.requestData = NewLeaveRequestItem(jobs[j])]]
  /\ UNCHANGED <<now, store, held, permissionsCache, calls, approval,
                 workflow>>

\* PUT /leave/:id/approve once verifyToken and authorizeFeature have called
\* next(), up to the await of the get by which the approval middleware of
\* line 216 loads the request
leaveDecideCall(j, user, id, status) ==
  /\ jobs[j].route = "idle"
  /\ jobs' = [jobs EXCEPT ![j] =
       [IdleJob EXCEPT !.route = "leave.approve", !.pc = "getRequest",
                       !.user = user, !.id = id, !.status = status]]
  /\ UNCHANGED <<now, store, held, permissionsCache, calls, approval,
                 workflow, hris_leave>>

\* the handler of PUT /:id/approve up to its first await (lines 217-246):
\* the body's status is tested, then the status of req.requestData
leaveDecideHandlerStarts(job) ==
  IF job.status \notin {"approved", "rejected"}
  THEN Responded(job, 400,
         "Invalid status. Must be \"approved\" or \"rejected\"")
  ELSE IF job.requestData.status # "pending"
  THEN Responded(job, 403, "Leave request is already decided")
  ELSE [job EXCEPT !.pc = "getApprover"]

\* checkApprovalAuthority(LEAVE_TABLE, 'id'), the middleware line 216 puts in
\* front of the handler: the request of req.params.id is loaded into
\* req.requestData and the type-aware resolver decides for a leave request
\* of the request's department
checkApprovalAuthorityMiddleware(j) ==
  /\ jobs[j].pc = "getRequest"
  /\ jobs' = [jobs EXCEPT ![j] =
       IF @.id \notin DOMAIN hris_leave.requests
       THEN Responded(@, 404, "Request not found")
       ELSE LET requestData == hris_leave.requests[@.id]
            IN IF ~canApprove("leave", @.user.accessLevel,
                              @.user.department = requestData.department)
               THEN Responded(@, 403, "Not authorized to approve this request")
               ELSE leaveDecideHandlerStarts(
                      [@ EXCEPT !.requestData = requestData])]
  /\ UNCHANGED <<now, store, held, permissionsCache, calls, approval,
                 workflow, hris_leave>>

\* PUT /:id/approve: the get of the approver answered (lines 243-254)
leaveDecideApproverReturns(j) ==
  /\ jobs[j].pc = "getApprover"
  /\ jobs' = [jobs EXCEPT ![j] =
       IF @.user.id \notin DOMAIN hris_users
       THEN Responded(@, 404, "Approver not found")
       ELSE [@ EXCEPT !.pc = "updateRequest"]]
  /\ UNCHANGED <<now, store, held, permissionsCache, calls, approval,
                 workflow, hris_leave>>

\* PUT /:id/approve: the update of lines 257-274 was applied, an
\* unconditional SET; for 'approved' updateLeaveBalance is entered and sends
\* the get of getLeaveBalance (lines 277-278, 579, 541)
leaveDecideUpdateSucceeds(j) ==
  /\ jobs[j].pc = "updateRequest"
  /\ hris_leave' = [hris_leave EXCEPT !.requests[jobs[j].id] =
       [@ EXCEPT !.status = jobs[j].status, !.approved_by = jobs[j].user.id]]
  /\ jobs' = [jobs EXCEPT ![j] =
       IF @.status = "approved"
       THEN [@ EXCEPT !.pc = "getBalance"]
       ELSE [@ EXCEPT !.pc = "putLog"]]
  /\ UNCHANGED <<now, store, held, permissionsCache, calls, approval,
                 workflow>>

\* updateLeaveBalance: the update of lines 581-594 was applied:
\* SET #leaveType = #leaveType - :daysUsed, whatever the balance is
updateLeaveBalanceUpdateSucceeds(j) ==
  /\ jobs[j].pc = "updateBalance"
  /\ LET r == jobs[j].requestData
     IN hris_leave' = [hris_leave EXCEPT !.balances[r.user_id] =
          [@ EXCEPT ![r.leave_type] = @ - r.days]]
  /\ jobs' = [jobs EXCEPT ![j] = [@ EXCEPT !.pc = "putBalanceLog"]]
  /\ UNCHANGED <<now, store, held, permissionsCache, calls, approval,
                 workflow>>

\* updateLeaveBalance: the put of its log entry was applied (lines 597-610);
\* the handler goes on to its own log entry (lines 282-295)
updateLeaveBalanceLogSucceeds(j) ==
  /\ jobs[j].pc = "putBalanceLog"
  /\ jobs' = [jobs EXCEPT ![j] = [@ EXCEPT !.pc = "putLog"]]
  /\ UNCHANGED <<now, store, held, permissionsCache, calls, approval,
                 workflow, hris_leave>>

\* the put of the log entry was applied and the response sent
\* (lines 195-205, 292-302)
leaveLogPutSucceeds(j) ==
  /\ jobs[j].pc = "putLog"
  /\ jobs' = [jobs EXCEPT ![j] =
       IF @.route = "leave.request"
       THEN Responded(@, 201, "Leave request submitted successfully")
       ELSE Responded(@, 200, "Leave request decided successfully")]
  /\ UNCHANGED <<now, store, held, permissionsCache, calls, approval,
                 workflow, hris_leave>>

\* a get, put or update of the router failed: the catch blocks of lines
\* 206-212 and 303-309 answer (getLeaveBalance and updateLeaveBalance
\* rethrow, lines 569-572 and 611-614)
leaveRouterAwaitFails(j) ==
  /\ jobs[j].pc \notin {"idle", "done"}
  /\ jobs' = [jobs EXCEPT ![j] = Responded(@, 500, "Internal server error")]
  /\ UNCHANGED <<now, store, held, permissionsCache, calls, approval,
                 workflow, hris_leave>>

\* the response was sent; the slot serves the next request
jobReturns(j) ==
  /\ jobs[j].pc = "done"
  /\ jobs' = [jobs EXCEPT ![j] = IdleJob]
  /\ UNCHANGED <<now, store, held, permissionsCache, calls, approval,
                 workflow, hris_leave>>

-----------------------------------------------------------------------------
(* Inputs *)

PermissionMaps ==
  {[present |-> FALSE, granted |-> {}]}
  \cup {[present |-> TRUE, granted |-> g] : g \in {{}} \cup {{f} : f \in Features}}

RoleLists ==
  {[present |-> FALSE, list |-> <<>>], [present |-> TRUE, list |-> <<>>],
   [present |-> TRUE, list |-> <<"r1">>],
   [present |-> TRUE, list |-> <<"r9", "r2">>]}

\* authenticated actors
Actors ==
  [user : {TRUE}, id : {TRUE}, accessLevel : AccessLevels,
   permissions : PermissionMaps, roles : RoleLists]

\* req.user missing, or present without an id
Unauthenticated ==
  {NoUser}
  \cup [user : {TRUE}, id : {FALSE}, accessLevel : AccessLevels,
        permissions : {[present |-> TRUE, granted |-> {"documents.delete"}]},
        roles : {[present |-> TRUE, list |-> <<"r1">>]}]

\* PolicyStore contents the process may start against
CustomLevels == {2, MaxRequiredLevel}

StoredPermissions ==
  {EmptyMap}
  \cup {f :> [requiredLevel |-> l] : f \in Features, l \in CustomLevels}

StoredRoles ==
  {EmptyMap,
   "r1" :> [permissions |-> {"*"}],
   ("r1" :> [permissions |-> {"documents.delete"}])
     @@ ("r2" :> [permissions |-> {"reports.custom", "documents.upload"}])}

Stores == [permissions : StoredPermissions, roles : StoredRoles]

EmptyStore == [permissions |-> EmptyMap, roles |-> EmptyMap]

\* the few inputs of the concurrent specification
Clerk ==
  [user |-> TRUE, id |-> TRUE, accessLevel |-> 1,
   permissions |-> [present |-> TRUE, granted |-> {}],
   roles |-> [present |-> TRUE, list |-> <<>>]]

Officer ==
  [user |-> TRUE, id |-> TRUE, accessLevel |-> 4,
   permissions |-> [present |-> FALSE, granted |-> {}],
   roles |-> [present |-> TRUE, list |-> <<"r1">>]]

\* callers of PUT /requests/:id: a manager of the request's department, a
\* manager of another one, an HR officer, an administrator, an employee
\* below level 3
Managers ==
  {[id |-> "mgr1", accessLevel |-> 3, department |-> "engineering",
    access_level |-> 3],
   [id |-> "mgr2", accessLevel |-> 3, department |-> "sales",
    access_level |-> 3],
   [id |-> "hr1", accessLevel |-> 4, department |-> "sales",
    access_level |-> 4],
   [id |-> "admin1", accessLevel |-> 5, department |-> "sales",
    access_level |-> 5],
   [id |-> "emp1", accessLevel |-> 1, department |-> "engineering",
    access_level |-> 1]}

\* callers of PUT /leave/:id/approve: the manager the request names, an
\* administrator it does not name, a manager below level 4
Approvers ==
  {[id |-> "hr1", accessLevel |-> 4, department |-> "sales",
    access_level |-> 4],
   [id |-> "admin1", accessLevel |-> 5, department |-> "sales",
    access_level |-> 5],
   [id |-> "mgr1", accessLevel |-> 3, department |-> "engineering",
    access_level |-> 3]}

\* req.body.status
BodyStatuses == {"approved", "pending", "cancelled"}

\* the tables once POST /requests and POST /leave/request have stored a
\* request of employee emp1 (part_001 lines 29-53, leave.js lines 84-101,
\* 383-395); managerId is null when req.user.managerId is missing
NewLeaveRequest(managerId) ==
  "L1" :> [status |-> "pending", managerId |-> managerId, approvedBy |-> "-",
           employeeId |-> "emp1", leaveType |-> "annual", leaveDays |-> 3]

InitialLeaveRequests == {NewLeaveRequest(m) : m \in {"-", "hr1"}}

InitRoutes ==
  /\ requests = [id \in {"R1", "R2"} |->
                  [status |-> "pending",
                   employeeDepartment |->
                     IF id = "R1" THEN "engineering" ELSE "sales",
                   approverId |-> "-"]]
  /\ LeaveBalances = "emp1" :> [annual |-> 20, sick |-> 10]
  /\ runs = [h \in Slots |-> IdleRun]

\* the newer router before any request: an empty table
InitLeaveRouter ==
  /\ hris_leave = EmptyLeaveTable
  /\ jobs = [j \in Slots |-> IdleJob]

\* submitters of POST /leave/request: users of the table and one without item
Submitters ==
  {[id |-> u, accessLevel |-> 1, department |-> "-", access_level |-> 1]
     : u \in (DOMAIN hris_users) \cup {"nobody"}}

\* callers of PUT /leave/:id/approve of the newer router: an HR officer, the
\* manager of the submitter's department, a manager of another department
Deciders ==
  {[id |-> "hr1", accessLevel |-> 4, department |-> "sales",
    access_level |-> 4],
   [id |-> "mgr1", accessLevel |-> 3, department |-> "engineering",
    access_level |-> 3],
   [id |-> "lead1", accessLevel |-> 3, department |-> "sales",
    access_level |-> 3]}

\* the table once emp1's request of 15 days of annual leave was stored by
\* POST /leave/request (lines 120, 162-182)
OneRequestStored ==
  [requests |->
     1 :> [user_id |-> "emp1", leave_type |-> "annual", days |-> 15,
           status |-> "pending", approver_user_ids |-> <<"mgr1", "hr1">>,
           department |-> "engineering", approved_by |-> "-"],
   balances |-> "emp1" :> defaultBalance]

\* the day counts asked for: one the default annual balance covers, one it
\* does not
LeaveDays == {15, 25}

-----------------------------------------------------------------------------
(* Specifications *)

InitProcess ==
  /\ now = 1
  /\ permissionsCache = EmptyCache
  /\ calls = [s \in Slots |-> Idle]
  /\ approval = NoApproval
  /\ InitRoutes
  /\ LeaveRequests = NewLeaveRequest("-")
  /\ InitLeaveRouter

\* Spec: one process serving one call at a time while the clock runs
Init ==
  /\ InitProcess
  /\ store = EmptyStore
  /\ held = {store}

Respond(s) ==
  \/ putSucceeds(s)
  \/ putFails(s)
  \/ scanPermissionsSucceeds(s)
  \/ scanPermissionsFails(s)
  \/ scanRolesReads(s)
  \/ scanRolesSucceeds(s)
  \/ scanRolesFails(s)
  \/ Return(s)

WrittenLevels == {1, 3}

Next ==
  \/ \E f \in {"documents.upload", "documents.delete"} :
       \/ \E u \in {Clerk, NoUser} : canPerformCall(1, f, u)
       \/ \E u \in {Officer, NoUser} : authorizeFeatureCall(1, f, u)
  \/ getAllPermissionsCall(1)
  \/ \E l \in WrittenLevels : setPermissionCall(1, "documents.upload", l)
  \/ setRoleCall(1, "r1", {"*"})
  \/ Respond(1)
  \/ Tick

Spec == Init /\ [][Next]_vars

\* SpecConc: calls of one process interleaved at their awaits
NextConc ==
  \E s \in Slots :
    \/ canPerformCall(s, "documents.upload", Clerk)
    \/ setPermissionCall(s, "documents.upload", 3)
    \/ setRoleCall(s, "r1", {"*"})
    \/ Respond(s)

SpecConc == Init /\ [][NextConc]_vars

\* SpecDecide: one call at a time against any of the stores, every actor
InitDecide ==
  /\ InitProcess
  /\ store \in Stores
  /\ held = {store}

NextDecide ==
  \/ \E f \in Features :
       \/ \E u \in Actors \cup {NoUser} : canPerformCall(1, f, u)
       \/ \E u \in Actors \cup Unauthenticated : authorizeFeatureCall(1, f, u)
  \/ getAllPermissionsCall(1)
  \/ scanPermissionsSucceeds(1)
  \/ scanPermissionsFails(1)
  \/ scanRolesReads(1)
  \/ scanRolesSucceeds(1)
  \/ scanRolesFails(1)
  \/ Return(1)

SpecDecide == InitDecide /\ [][NextDecide]_vars

\* SpecFault: one call at a time against a roles table that holds an item
\* whose permissions attribute is not an array; the resolver, which shares no
\* state with the gate, is called before the first gate call
FaultyStore ==
  [permissions |-> "documents.delete" :> [requiredLevel |-> 2],
   roles |-> ("r1" :> [permissions |-> NotAnArray])
               @@ ("r2" :> [permissions |-> {"reports.custom", "documents.upload"}])]

InitFault ==
  /\ InitProcess
  /\ store = FaultyStore
  /\ held = {store}

NextFault ==
  \/ approval = NoApproval /\ NextDecide
  \/ /\ calls[1].op = "idle"
     /\ permissionsCache = EmptyCache
     /\ \E r \in Requests, d \in Departments : checkAuthorityCall(r, d)

SpecFault == InitFault /\ [][NextFault]_vars

\* SpecRequests: PUT /requests/:id, one request at a time
NextRequests ==
  \/ \E u \in Managers, id \in {"R1", "R2"}, s \in BodyStatuses :
       requestsPutCall(1, u, id, s)
  \/ \E u \in Managers : requestsPutCall(1, u, "R404", "approved")
  \/ checkAccessGetReturns(1)
  \/ checkAccessGetFails(1)
  \/ requestsQueryReturns(1)
  \/ requestsQueryFails(1)
  \/ runReturns(1)

SpecRequests == Init /\ [][NextRequests]_vars

\* SpecLeave: PUT /leave/:id/approve, runs interleaved at their awaits, on a
\* leave request stored with or without a managerId
InitLeave ==
  /\ now = 1
  /\ store = EmptyStore
  /\ held = {store}
  /\ permissionsCache = EmptyCache
  /\ calls = [s \in Slots |-> Idle]
  /\ approval = NoApproval
  /\ InitRoutes
  /\ LeaveRequests \in InitialLeaveRequests
  /\ InitLeaveRouter

NextLeave ==
  \E h \in Slots :
    \/ \E u \in Approvers, s \in {"approved", "rejected"} :
         leaveApproveCall(h, u, "L1", s)
    \/ checkAccessGetReturns(h)
    \/ checkAccessGetFails(h)
    \/ leaveGetReturns(h)
    \/ leaveAwaitFails(h)
    \/ leaveUpdateSucceeds(h)
    \/ runReturns(h)

SpecLeave == InitLeave /\ [][NextLeave]_vars

\* SpecSubmit: POST /leave/request of the newer router, one call at a time
NextSubmit ==
  \/ \E u \in Submitters, d \in LeaveDays, w \in BOOLEAN :
       leaveRequestCall(1, u, "annual", d, w)
  \/ getLeaveBalanceGetReturns(1)
  \/ getLeaveBalancePutSucceeds(1)
  \/ leaveRequestUserReturns(1)
  \/ leaveRequestManagerReturns(1)
  \/ leaveRequestPutSucceeds(1)
  \/ leaveLogPutSucceeds(1)
  \/ leaveRouterAwaitFails(1)
  \/ jobReturns(1)

SpecSubmit == Init /\ [][NextSubmit]_vars

\* SpecLive: middleware runs interleaved at their awaits, against the roles
\* table of SpecFault. Every scan the run in slot 1 sends is answered: it
\* returns or it fails; nothing is assumed of the scans of the other runs
ScanResponds(s) ==
  \/ scanPermissionsSucceeds(s)
  \/ scanPermissionsFails(s)
  \/ scanRolesReads(s)
  \/ scanRolesSucceeds(s)
  \/ scanRolesFails(s)

NextLive ==
  \E s \in Slots :
    \/ \E f \in {"documents.upload", "documents.delete"},
          u \in {Officer, Clerk, NoUser} : authorizeFeatureCall(s, f, u)
    \/ ScanResponds(s)
    \/ Return(s)

SpecLive == InitFault /\ [][NextLive]_vars /\ WF_vars(ScanResponds(1))

\* SpecRace: decisions and writes of one permission interleaved at their
\* awaits while the clock runs
NextRace ==
  \/ \E s \in Slots :
       \/ canPerformCall(s, "documents.upload", Clerk)
       \/ setPermissionCall(s, "documents.upload", 3)
       \/ Respond(s)
  \/ Tick

SpecRace == Init /\ [][NextRace]_vars

\* SpecApprove: PUT /leave/:id/approve of the newer router on one stored
\* request, runs interleaved at their awaits
InitApprove ==
  /\ now = 1
  /\ store = EmptyStore
  /\ held = {store}
  /\ permissionsCache = EmptyCache
  /\ calls = [s \in Slots |-> Idle]
  /\ approval = NoApproval
  /\ InitRoutes
  /\ LeaveRequests = NewLeaveRequest("-")
  /\ hris_leave = OneRequestStored
  /\ jobs = [j \in Slots |-> IdleJob]

NextApprove ==
  \E j \in Slots :
    \/ \E u \in Deciders, s \in {"approved", "rejected"} :
         leaveDecideCall(j, u, 1, s)
    \/ checkApprovalAuthorityMiddleware(j)
    \/ leaveDecideApproverReturns(j)
    \/ leaveDecideUpdateSucceeds(j)
    \/ getLeaveBalanceGetReturns(j)
    \/ updateLeaveBalanceUpdateSucceeds(j)
    \/ updateLeaveBalanceLogSucceeds(j)
    \/ leaveLogPutSucceeds(j)
    \/ leaveRouterAwaitFails(j)
    \/ jobReturns(j)

SpecApprove == InitApprove /\ [][NextApprove]_vars

\* SpecBalance: submissions and decisions of the newer router one call at a
\* time, each call run to its response before the next one starts; the
\* submitters are an employee with a manager and one without
BalanceSubmitters == {u \in Submitters : u.id \in {"emp1", "emp3"}}

NextBalance ==
  \/ \E u \in BalanceSubmitters, d \in LeaveDays :
       leaveRequestCall(1, u, "annual", d, TRUE)
  \/ \E u \in Deciders, id \in 1..MaxRequests,
        s \in {"approved", "rejected"} : leaveDecideCall(1, u, id, s)
  \/ checkApprovalAuthorityMiddleware(1)
  \/ getLeaveBalanceGetReturns(1)
  \/ getLeaveBalancePutSucceeds(1)
  \/ leaveRequestUserReturns(1)
  \/ leaveRequestManagerReturns(1)
  \/ leaveRequestPutSucceeds(1)
  \/ leaveDecideApproverReturns(1)
  \/ leaveDecideUpdateSucceeds(1)
  \/ updateLeaveBalanceUpdateSucceeds(1)
  \/ updateLeaveBalanceLogSucceeds(1)
  \/ leaveLogPutSucceeds(1)
  \/ leaveRouterAwaitFails(1)
  \/ jobReturns(1)

SpecBalance == Init /\ [][NextBalance]_vars

\* SpecApproval: the two approval resolvers on every input
NextApproval ==
  \/ \E t \in RequestTypes, l \in AccessLevels, d \in BOOLEAN :
       canApproveCall(t, l, d)
  \/ \E r \in Requests, d \in Departments : checkAuthorityCall(r, d)

SpecApproval == Init /\ [][NextApproval]_vars

\* SpecDominance: canPerform against any of the stores and the two approval
\* resolvers; the resolvers, which share no state with the gate, are called
\* before the first gate call
NextDominance ==
  \/ approval = NoApproval /\ NextDecide
  \/ /\ calls[1].op = "idle"
     /\ permissionsCache = EmptyCache
     /\ NextApproval

SpecDominance == InitDecide /\ [][NextDominance]_vars

-----------------------------------------------------------------------------
(* Properties *)

\* a canPerform call that has returned / a middleware run that has responded
CanPerformDone(s) == calls[s].op = "canPerform" /\ calls[s].pc = "done"

MiddlewareDone(s) == calls[s].op = "authorizeFeature" /\ calls[s].pc = "done"

\* the actor holds a truthy permissions[f]
OverrideFor(u, f) == u.permissions.present /\ f \in u.permissions.granted

\* some role id the actor lists is a role of snapshot c that names f or "*"
ListedRoleNames(c, u, f) ==
  /\ u.roles.present
  /\ \E i \in 1..Len(u.roles.list) :
       /\ u.roles.list[i] \in DOMAIN c.roles
       /\ ({f, "*"} \cap c.roles[u.roles.list[i]].permissions) # {}

\* C1: an actor with a truthy override permissions[f] is allowed f by
\* canPerform whatever its roles and access level, and an authenticated
\* request of that actor passes the authorizeFeature(f) middleware.
C1_OverrideAllows ==
  \A s \in Slots :
    LET u == calls[s].user  f == calls[s].featureName
    IN /\ (CanPerformDone(s) /\ OverrideFor(u, f)) => calls[s].outcome = "true"
       /\ (MiddlewareDone(s) /\ u.user /\ u.id /\ OverrideFor(u, f))
            => calls[s].outcome = "next"

\* an override alone decides: level 1, no roles, documents.delete needs 4
C1_Witness ==
  /\ CanPerformDone(1)
  /\ calls[1].featureName = "documents.delete"
  /\ OverrideFor(calls[1].user, "documents.delete")
  /\ calls[1].user.accessLevel = 1
  /\ calls[1].user.roles.list = <<>>
  /\ RequiredLevel(permissionsCache, "documents.delete") = 5
  /\ calls[1].outcome = "true"

\* C2: a listed role that the cache holds and that names f or "*" allows f
\* without override and below the required level; role ids the cache does
\* not hold grant nothing, and the access level then decides.
C2_RoleGrant ==
  \A s \in Slots :
    LET u == calls[s].user  f == calls[s].featureName
    IN CanPerformDone(s) =>
         /\ ListedRoleNames(permissionsCache, u, f) => calls[s].outcome = "true"
         /\ ( /\ u.roles.present
              /\ u.roles.list # <<>>
              /\ \A i \in 1..Len(u.roles.list) :
                   u.roles.list[i] \notin DOMAIN permissionsCache.roles
              /\ ~OverrideFor(u, f) )
            => (calls[s].outcome = "true"
                  <=> u.accessLevel >= RequiredLevel(permissionsCache, f))

\* the wildcard role alone decides: level 1, no override, documents.delete
C2_Witness ==
  /\ CanPerformDone(1)
  /\ calls[1].featureName = "documents.delete"
  /\ calls[1].user.roles.list = <<"r1">>
  /\ "r1" \in DOMAIN permissionsCache.roles
  /\ permissionsCache.roles["r1"].permissions = {"*"}
  /\ ~OverrideFor(calls[1].user, "documents.delete")
  /\ calls[1].user.accessLevel = 1
  /\ calls[1].outcome = "true"

\* C3: a feature with neither a cache entry nor a built-in entry requires
\* level 5: without override and granting role the actor is denied below
\* level 5 and allowed from level 5.
C3_UnknownFeatureNeedsLevel5 ==
  \A s \in Slots :
    LET u == calls[s].user  f == calls[s].featureName
    IN ( /\ CanPerformDone(s)
         /\ f \notin DOMAIN permissionsCache.permissions
         /\ f \notin DOMAIN defaultFeaturePermissions
         /\ ~OverrideFor(u, f)
         /\ ~ListedRoleNames(permissionsCache, u, f) )
       => (calls[s].outcome = "true" <=> u.accessLevel >= 5)

\* a level-4 actor is denied the unknown feature on a populated cache
C3_Witness ==
  /\ CanPerformDone(1)
  /\ calls[1].featureName = "reports.custom"
  /\ permissionsCache.timestamp # 0
  /\ "reports.custom" \notin DOMAIN permissionsCache.permissions
  /\ calls[1].user.accessLevel = 4
  /\ calls[1].user.roles.list = <<"r1">>
  /\ calls[1].outcome = "false"

\* C4: in the access-level fallback a cache entry for f decides by its own
\* requiredLevel and the built-in level is not consulted; the built-in
\* level (or 5) is used only when the cache has no entry for f.
C4_CacheEntryBeforeDefault ==
  \A s \in Slots :
    LET u == calls[s].user  f == calls[s].featureName
        c == permissionsCache
    IN ( /\ CanPerformDone(s)
         /\ u.user
         /\ ~OverrideFor(u, f)
         /\ ~ListedRoleNames(c, u, f) )
       => (calls[s].outcome = "true"
             <=> IF f \in DOMAIN c.permissions
                 THEN u.accessLevel >= c.permissions[f].requiredLevel
                 ELSE IF f \in DOMAIN defaultFeaturePermissions
                 THEN u.accessLevel >= defaultFeaturePermissions[f]
                 ELSE u.accessLevel >= 5)

\* the cache entry (2) allows a level-2 actor whom the built-in level (4)
\* would deny
C4_Witness ==
  /\ CanPerformDone(1)
  /\ calls[1].featureName = "documents.delete"
  /\ "documents.delete" \in DOMAIN permissionsCache.permissions
  /\ permissionsCache.permissions["documents.delete"].requiredLevel = 2
  /\ calls[1].user.accessLevel = 2
  /\ ~OverrideFor(calls[1].user, "documents.delete")
  /\ calls[1].user.roles.list = <<>>
  /\ calls[1].outcome = "true"

\* C5: canApprove is the type-aware table: level >= 5 always; level 4 all
\* but expense-high; level 3 only in the same department and only leave,
\* training, equipment, expense, document, travel; otherwise never.
C5_TypeAwareTable ==
  approval.fn = "canApprove" =>
    LET t == approval.requestType  l == approval.accessLevel
    IN approval.result <=>
         \/ l >= 5
         \/ l = 4 /\ t # "expense-high"
         \/ /\ l = 3
            /\ approval.isSameDept
            /\ t \in {"leave", "training", "equipment", "expense", "document",
                      "travel"}

C5_Witness ==
  /\ approval.fn = "canApprove"
  /\ approval.accessLevel = 4
  /\ approval.requestType = "expense-high"
  /\ approval.result = FALSE

\* C6: checkAuthority is the department-only policy: level >= 4 allowed,
\* level 3 allowed exactly in the employee's department, below 3 denied,
\* and denied without an actor or an actor id.
C6_DepartmentOnlyPolicy ==
  approval.fn = "checkAuthority" =>
    LET r == approval.req
    IN approval.result <=>
         /\ r.user
         /\ r.id
         /\ \/ r.accessLevel >= 4
            \/ r.accessLevel = 3 /\ r.department = approval.employeeDepartment

C6_Witness ==
  /\ approval.fn = "checkAuthority"
  /\ approval.req.id
  /\ approval.req.accessLevel = 3
  /\ approval.req.department # approval.employeeDepartment
  /\ approval.result = FALSE

\* the required level snapshot c gives feature f
LevelNeeded(c, f) ==
  IF f \in DOMAIN c.permissions THEN c.permissions[f].requiredLevel
  ELSE IF f \in DOMAIN defaultFeaturePermissions
  THEN defaultFeaturePermissions[f]
  ELSE 5

\* the decision snapshot c gives actor u on feature f
Allowed(c, u, f) ==
  \/ OverrideFor(u, f)
  \/ ListedRoleNames(c, u, f)
  \/ u.accessLevel >= LevelNeeded(c, f)

\* the actor passes canPerform's guard on missing data
Evaluated(u) ==
  u.user /\ ~(u.accessLevel = 0 /\ ~u.permissions.present /\ ~u.roles.present)

\* this step ends the refresh of call s with a failure / a success
RefreshFails(s) == calls[s].refresh = "pending" /\ calls'[s].refresh = "failed"

RefreshSucceeds(s) == calls[s].refresh = "pending" /\ calls'[s].refresh = "ok"

\* C7: a refresh that fails on a scan leaves permissions, roles and timestamp
\* of the cache as they were, the decision returns normally and is the one
\* the previous snapshot gives; with no snapshot ever obtained it is the one
\* of the built-in table (level 1: documents.upload yes, documents.delete no).
C7_FailedRefreshKeepsSnapshot ==
  [][\A s \in Slots :
       RefreshFails(s) =>
         LET u == calls[s].user  f == calls[s].featureName
             r == calls'[s]
         IN /\ permissionsCache' = permissionsCache
            /\ r.pc = "done"
            /\ calls[s].op = "canPerform" =>
                 /\ r.outcome = IF Allowed(permissionsCache, u, f)
                                THEN "true" ELSE "false"
                 /\ ( /\ permissionsCache.timestamp = 0
                      /\ u.accessLevel = 1
                      /\ u.permissions.granted = {}
                      /\ u.roles.list = <<>> )
                    => /\ f = "documents.upload" => r.outcome = "true"
                       /\ f = "documents.delete" => r.outcome = "false"
            /\ calls[s].op = "authorizeFeature" =>
                 r.outcome = IF Allowed(permissionsCache, u, f)
                             THEN "next" ELSE "403"]_vars

\* the refresh of an expired cache failed and the clerk is denied by the
\* level 3 of the old snapshot
C7_Witness ==
  /\ CanPerformDone(1)
  /\ calls[1].refresh = "failed"
  /\ calls[1].timestampAtCall # 0
  /\ calls[1].featureName = "documents.upload"
  /\ permissionsCache.timestamp = calls[1].timestampAtCall
  /\ RequiredLevel(permissionsCache, "documents.upload") = 3
  /\ calls[1].outcome = "false"

\* C8 as stated: once setPermission(name, level) has returned success and
\* name has not been written since, a canPerform called afterwards resolves
\* name's required level to the written level.
C8_ReadAfterWrite ==
  [][\A s, t \in Slots :
       ( /\ calls[s].op = "setPermission"
         /\ calls[s].pc = "done"
         /\ calls[s].outcome = "true"
         /\ store.permissions[calls[s].permissionName].requiredLevel
              = calls[s].requiredLevel
         /\ calls[t].op = "idle"
         /\ calls'[t].op = "canPerform"
         /\ calls'[t].pc = "done"
         /\ calls'[t].featureName = calls[s].permissionName
         /\ Evaluated(calls'[t].user)
         /\ ~OverrideFor(calls'[t].user, calls'[t].featureName)
         /\ ~ListedRoleNames(permissionsCache, calls'[t].user,
                             calls'[t].featureName) )
       => (calls'[t].outcome = "true"
             <=> calls'[t].user.accessLevel >= calls[s].requiredLevel)]_vars

\* C8 amended: setPermission's forced refresh scans the permissions table
\* after the put; when it succeeds the cache it installs holds for name the
\* level scanned, when it fails setPermission returns success all the same
\* and the cache stays as it was; the cache changes only when some call's
\* refresh succeeds, to what that call scanned; and a canPerform that finds
\* the cache fresh decides from the snapshot in place.
C8_ForcedRefreshInstallsScan ==
  [][/\ \A s \in Slots :
          LET n == calls[s].permissionName
          IN calls[s].op = "setPermission" =>
               /\ (calls[s].pc = "scanPermissions" /\ calls'[s].pc = "scanRoles")
                    => /\ n \in DOMAIN store.permissions
                       /\ calls'[s].permissionsResult = store.permissions
               /\ RefreshSucceeds(s)
                    => /\ calls'[s].outcome = "true"
                       /\ n \in DOMAIN permissionsCache'.permissions
                       /\ permissionsCache'.permissions[n]
                            = calls[s].permissionsResult[n]
               /\ RefreshFails(s)
                    => /\ calls'[s].outcome = "true"
                       /\ permissionsCache' = permissionsCache
     /\ permissionsCache' # permissionsCache
          => \E t \in Slots :
               /\ RefreshSucceeds(t)
               /\ permissionsCache'.permissions = calls[t].permissionsResult
     /\ \A t \in Slots :
          ( /\ calls[t].op = "idle"
            /\ calls'[t].op = "canPerform"
            /\ calls'[t].pc = "done"
            /\ Evaluated(calls'[t].user) )
          => (calls'[t].outcome = "true"
                <=> Allowed(permissionsCache, calls'[t].user,
                            calls'[t].featureName))]_vars

\* setPermission(documents.upload, 3) has returned after a successful forced
\* refresh, and a canPerform that found the cache fresh denied the clerk
C8_Witness ==
  \E s, t \in Slots :
    /\ calls[s].op = "setPermission"
    /\ calls[s].pc = "done"
    /\ calls[s].refresh = "ok"
    /\ calls[s].requiredLevel = 3
    /\ RequiredLevel(permissionsCache, "documents.upload") = 3
    /\ CanPerformDone(t)
    /\ calls[t].refresh = "none"
    /\ calls[t].outcome = "false"

\* C9: when setPermission's put succeeded and its forced refresh failed, the
\* store holds the new permission and the cache is unchanged; the cache
\* changes only by a successful refresh, and a canPerform decided without
\* one decides from the snapshot in place, the one from before the write.
C9_StaleAfterFailedForcedRefresh ==
  [][/\ \A s \in Slots :
          (calls[s].op = "setPermission" /\ RefreshFails(s))
          => /\ calls[s].permissionName \in DOMAIN store'.permissions
             /\ store'.permissions[calls[s].permissionName].requiredLevel
                  = calls[s].requiredLevel
             /\ permissionsCache' = permissionsCache
             /\ calls'[s].outcome = "true"
     /\ (\A s \in Slots : ~RefreshSucceeds(s))
          => permissionsCache' = permissionsCache
     /\ \A s \in Slots :
          ( /\ calls'[s].op = "canPerform"
            /\ calls[s].pc # "done"
            /\ calls'[s].pc = "done"
            /\ calls'[s].refresh # "ok"
            /\ Evaluated(calls'[s].user) )
          => (calls'[s].outcome = "true"
                <=> Allowed(permissionsCache, calls'[s].user,
                            calls'[s].featureName))]_vars

\* the store requires level 3 for documents.upload, the populated cache has
\* no entry for it, and the clerk is allowed by the pre-write level 1
C9_Witness ==
  /\ CanPerformDone(1)
  /\ calls[1].refresh = "none"
  /\ calls[1].featureName = "documents.upload"
  /\ "documents.upload" \in DOMAIN store.permissions
  /\ store.permissions["documents.upload"].requiredLevel = 3
  /\ permissionsCache.timestamp # 0
  /\ "documents.upload" \notin DOMAIN permissionsCache.permissions
  /\ calls[1].user.accessLevel = 1
  /\ calls[1].outcome = "true"

\* C10: a middleware run, canPerform or getAllPermissions that reaches its
\* freshness test invokes the refresh exactly when the cache was never
\* populated or is older than 5 minutes (strictly), and otherwise reads
\* nothing from the store.
C10_RefreshIffStale ==
  \A s \in Slots :
    LET c == calls[s]
        reaches ==
          \/ c.op = "authorizeFeature" /\ c.user.user /\ c.user.id
          \/ c.op = "canPerform" /\ Evaluated(c.user)
          \/ c.op = "getAllPermissions"
    IN reaches =>
         /\ c.refresh # "none"
              <=> (c.timestampAtCall = 0 \/ c.calledAt - c.timestampAtCall > 5)
         /\ c.refresh = "none"
              => /\ c.pc = "done"
                 /\ c.permissionsResult = EmptyMap
                 /\ c.rolesResult = EmptyMap

\* a canPerform called exactly 5 minutes after the fetch does not refresh
C10_Witness ==
  /\ CanPerformDone(1)
  /\ Evaluated(calls[1].user)
  /\ calls[1].timestampAtCall # 0
  /\ calls[1].calledAt - calls[1].timestampAtCall = 5
  /\ calls[1].refresh = "none"

\* the request carries no authenticated actor: !req.user || !req.user.id
NoActor(u) == ~u.user \/ ~u.id

\* C11: a request without an authenticated actor is answered 401 by the
\* middleware in the step that receives it: no refresh is started, nothing
\* is scanned, the cache is left alone, the handler is not invoked (the
\* outcome is not "next") and the outcome is not the 403 of a denial.
C11_UnauthenticatedRejectedFirst ==
  [][\A s \in Slots :
       ( /\ calls[s].op = "idle"
         /\ calls'[s].op = "authorizeFeature"
         /\ NoActor(calls'[s].user) )
       => /\ calls'[s].pc = "done"
          /\ calls'[s].outcome = "401"
          /\ calls'[s].outcome \notin {"next", "403"}
          /\ calls'[s].refresh = "none"
          /\ calls'[s].permissionsResult = EmptyMap
          /\ calls'[s].rolesResult = EmptyMap
          /\ permissionsCache' = permissionsCache]_vars

\* an actor record without an id, holding an override and level 5, gets 401
\* on a cache that was never populated
C11_Witness ==
  /\ MiddlewareDone(1)
  /\ calls[1].user.user
  /\ ~calls[1].user.id
  /\ calls[1].featureName = "documents.delete"
  /\ OverrideFor(calls[1].user, "documents.delete")
  /\ calls[1].user.accessLevel = 5
  /\ permissionsCache.timestamp = 0
  /\ calls[1].outcome = "401"
  /\ calls[1].refresh = "none"

\* what canPerform(f, u) returns when it reads snapshot c: its guard on
\* missing data (line 186), then its rules (lines 196-222)
canPerformOn(c, f, u) == Evaluated(u) /\ canPerformDecision(c, f, u)

\* C12: a middleware run for an authenticated actor that has responded on
\* the cache snapshot it read invoked the handler exactly when canPerform
\* returns true for the same feature, actor and snapshot, and answered 403
\* exactly when canPerform returns false; it has no third outcome.
C12_MiddlewareAgreesWithCanPerform ==
  \A s \in Slots :
    LET u == calls[s].user  f == calls[s].featureName
    IN (MiddlewareDone(s) /\ ~NoActor(u)) =>
         /\ calls[s].outcome \in {"next", "403"}
         /\ calls[s].outcome = "next" <=> canPerformOn(permissionsCache, f, u)
         /\ calls[s].outcome = "403" <=> ~canPerformOn(permissionsCache, f, u)

\* an authenticated actor with no accessLevel, permissions or roles: the
\* middleware evaluates the rules and denies, canPerform denies at its guard
C12_Witness ==
  /\ MiddlewareDone(1)
  /\ ~NoActor(calls[1].user)
  /\ ~Evaluated(calls[1].user)
  /\ calls[1].refresh = "ok"
  /\ permissionsCache.roles # EmptyMap
  /\ calls[1].outcome = "403"

\* C13: every middleware run that denies an authenticated actor, whichever
\* of its rules failed (no override, no granting role, level below the one
\* required) and whatever the actor, feature and snapshot, sends one and the
\* same response: status 403 with the fixed message; so any two denials in
\* flight carry identical responses.
C13_DenialResponseFixed ==
  /\ \A s \in Slots :
       LET u == calls[s].user  f == calls[s].featureName
       IN (MiddlewareDone(s) /\ ~NoActor(u) /\ ~Allowed(permissionsCache, u, f))
          => authorizeFeatureResponse(calls[s].outcome) =
               [status |-> 403, success |-> FALSE,
                message |->
                  "You do not have permission to access this feature"]
  /\ \A s1, s2 \in Slots :
       ( /\ MiddlewareDone(s1) /\ calls[s1].outcome \notin {"next", "401"}
         /\ MiddlewareDone(s2) /\ calls[s2].outcome \notin {"next", "401"} )
       => authorizeFeatureResponse(calls[s1].outcome) =
            authorizeFeatureResponse(calls[s2].outcome)

\* a level-0 actor without roles denied a feature that a stored entry puts
\* at level 2
C13_Witness ==
  /\ MiddlewareDone(1)
  /\ ~NoActor(calls[1].user)
  /\ calls[1].user.accessLevel = 0
  /\ ~calls[1].user.roles.present
  /\ calls[1].featureName \in DOMAIN permissionsCache.permissions
  /\ permissionsCache.permissions[calls[1].featureName].requiredLevel = 2
  /\ authorizeFeatureResponse(calls[1].outcome).status = 403

LeaveApproveDone(h) == runs[h].route = "leave.approve" /\ runs[h].pc = "done"

RequestsPutDone(h) == runs[h].route = "requests.put" /\ runs[h].pc = "done"

\* C15: once the status of a request is approved or rejected, no step of an
\* update operation changes it (or sets it back to pending).
C15_StatusLeavesPendingOnce ==
  [][/\ \A id \in DOMAIN LeaveRequests :
          LeaveRequests[id].status # "pending"
            => LeaveRequests'[id].status = LeaveRequests[id].status
     /\ \A id \in DOMAIN requests :
          requests[id].status # "pending"
            => requests'[id].status = requests[id].status]_vars

\* the responses by which the leave route refuses a caller for lack of
\* authority (checkAccess.js lines 12-15, 28-31, 36-39; leave.js lines 154-157)
LeaveDenials ==
  {[status |-> 401, message |-> "Authentication required"],
   [status |-> 403, message |-> "User not found"],
   [status |-> 403, message |-> "Insufficient access level"],
   [status |-> 403,
    message |-> "You are not authorized to approve this leave request."]}

\* the run read the request and the request does not name another manager
PassedAuthorization(run) ==
  /\ run.item.status # "-"
  /\ run.item.managerId \in {"-", run.user.id}

\* C16: an approve/reject call that passes the authorization tests and reads
\* a stored status other than 'pending' is answered with the conflict
\* response (403, "Leave request is not pending. Cannot approve or reject"),
\* which is none of the authorization denials; it never comes to its update,
\* and the step that answers it leaves the leave requests (status, approver
\* fields) and the leave balances as they are.
C16_NonPendingIsConflict ==
  /\ [](\A h \in Slots :
          /\ ( /\ LeaveApproveDone(h)
               /\ PassedAuthorization(runs[h])
               /\ runs[h].item.status # "pending" )
             => /\ runs[h].response =
                     [status |-> 403,
                      message |->
                        "Leave request is not pending. Cannot approve or reject"]
                /\ runs[h].response \notin LeaveDenials
          /\ runs[h].pc = "updateLeave" => runs[h].item.status = "pending")
  /\ [][\A h \in Slots :
          ( /\ runs[h].pc = "getLeave"
            /\ runs[h].id \in DOMAIN LeaveRequests
            /\ LeaveRequests[runs[h].id].status # "pending"
            /\ runs'[h] # runs[h] )
          => /\ runs'[h].pc = "done"
             /\ runs'[h].response.status # 200
             /\ LeaveRequests' = LeaveRequests
             /\ LeaveBalances' = LeaveBalances]_vars

\* a second call on a request that was rejected by another approver
C16_Witness ==
  /\ LeaveApproveDone(1)
  /\ runs[1].status = "approved"
  /\ runs[1].item.status = "rejected"
  /\ runs[1].item.approvedBy # runs[1].user.id
  /\ PassedAuthorization(runs[1])
  /\ runs[1].response.status = 403
  /\ LeaveRequests["L1"].status = "rejected"
  /\ LeaveRequests["L1"].approvedBy = runs[1].item.approvedBy

\* C17: when no approve call is in flight, an approved leave request has had
\* its day count taken off the employee's balance of its leave type, and no
\* other balance field has changed; a rejected one has left it as it was.
C17_ApprovedImpliesDecrement ==
  (\A h \in Slots : runs[h].pc \in {"idle", "done"}) =>
    \A id \in DOMAIN LeaveRequests :
      LET r == LeaveRequests[id]
          b == LeaveBalances[r.employeeId]
      IN /\ r.status = "approved"
              => b = [annual |-> 20 - r.leaveDays, sick |-> 10]
         /\ r.status \in {"pending", "rejected"}
              => b = [annual |-> 20, sick |-> 10]

\* the department-only resolver applied to the acting user
ResolverAllows(user, employeeDepartment) ==
  checkAuthority([user |-> TRUE, id |-> TRUE,
                  accessLevel |-> user.accessLevel,
                  department |-> user.department], employeeDepartment)

\* C18: on PUT /requests/:id the stored request differs from the one
\* created only if the resolver allowed the acting user for the request's
\* employeeDepartment, and a run that found the request and whose user the
\* resolver does not allow is answered with the authorization error 403.
C18_MutationOnlyAfterResolver ==
  \A h \in Slots :
    (RequestsPutDone(h) /\ runs[h].item.status # "-") =>
      LET allowed ==
            ResolverAllows(runs[h].user, requests[runs[h].id].employeeDepartment)
      IN /\ ~allowed
              => /\ runs[h].response =
                      [status |-> 403,
                       message |-> "Unauthorized to update this request"]
                 /\ requests[runs[h].id].status = runs[h].item.status
         /\ requests[runs[h].id].status # runs[h].item.status => allowed

\* C19: access-level dominance. With everything else held fixed (feature,
\* cache snapshot, overrides and roles of the actor; request type and
\* same-department flag; requester and department), a call of canPerform,
\* canApprove or checkAuthority that allowed at one access level is allowed
\* by the same function at every higher level.
C19_AccessLevelDominance ==
  /\ \A s \in Slots :
       (CanPerformDone(s) /\ calls[s].outcome = "true") =>
         \A l \in AccessLevels :
           l > calls[s].user.accessLevel =>
             canPerformOn(permissionsCache, calls[s].featureName,
                          [calls[s].user EXCEPT !.accessLevel = l])
  /\ (approval.fn = "canApprove" /\ approval.result) =>
       \A l \in AccessLevels :
         l > approval.accessLevel =>
           canApprove(approval.requestType, l, approval.isSameDept)
  /\ (approval.fn = "checkAuthority" /\ approval.result) =>
       \A l \in AccessLevels :
         l > approval.req.accessLevel =>
           checkAuthority([approval.req EXCEPT !.accessLevel = l],
                          approval.employeeDepartment)

\* a level 3 manager is allowed an expense of the own department, and so is
\* level 4, which the table denies 'expense-high'
C19_Witness ==
  /\ approval.fn = "canApprove"
  /\ approval.accessLevel = 3
  /\ approval.isSameDept
  /\ approval.requestType = "expense"
  /\ approval.result
  /\ canApprove("expense", 4, TRUE)
  /\ ~canApprove("expense-high", 4, TRUE)

\* C20: a canPerform call for a missing actor, or for an actor record without
\* accessLevel, permissions and roles, returns false for every feature in
\* the step that starts it: it waits for no scan, it starts no refresh, and
\* the cache snapshot is the one it found.
C20_MissingDataDeniedOutright ==
  /\ [](\A s \in Slots :
          (CanPerformDone(s) /\ ~Evaluated(calls[s].user))
            => /\ calls[s].outcome = "false"
               /\ calls[s].refresh = "none")
  /\ [][\A s \in Slots :
          ( /\ calls[s].op = "idle"
            /\ calls'[s].op = "canPerform"
            /\ ~Evaluated(calls'[s].user) )
          => /\ calls'[s].pc = "done"
             /\ calls'[s].outcome = "false"
             /\ calls'[s].refresh = "none"
             /\ permissionsCache' = permissionsCache]_vars

\* an actor record with none of the three fields asks for a feature every
\* level is allowed, before the cache was ever filled
C20_Witness ==
  /\ CanPerformDone(1)
  /\ calls[1].user.user
  /\ calls[1].user.accessLevel = 0
  /\ ~calls[1].user.permissions.present
  /\ ~calls[1].user.roles.present
  /\ calls[1].featureName = "documents.upload"
  /\ RequiredLevel(permissionsCache, "documents.upload") = 1
  /\ permissionsCache = EmptyCache
  /\ calls[1].outcome = "false"

\* the cache holds what the tables hold: nothing was written since the
\* refresh that filled it read them
CacheCurrent ==
  /\ permissionsCache.timestamp # 0
  /\ permissionsCache.permissions = store.permissions
  /\ permissionsCache.roles = store.roles

\* C21: a refresh that succeeds on a cache a successful refresh filled, with
\* no write to the tables since, leaves the permissions and the roles of the
\* cache as they were and sets the timestamp to the time of its completion.
C21_RefreshIdempotent ==
  [][\A s \in Slots :
       (CacheCurrent /\ RefreshSucceeds(s) /\ store' = store)
         => /\ permissionsCache'.permissions = permissionsCache.permissions
            /\ permissionsCache'.roles = permissionsCache.roles
            /\ permissionsCache'.timestamp = now
            /\ permissionsCache'.timestamp >= permissionsCache.timestamp]_vars

\* a listing call found a filled cache stale and refreshed it a second time
C21_Witness ==
  /\ calls[1].op = "getAllPermissions"
  /\ calls[1].refresh = "ok"
  /\ calls[1].timestampAtCall # 0
  /\ permissionsCache.timestamp > calls[1].timestampAtCall
  /\ store.permissions # EmptyMap
  /\ store.roles # EmptyMap
  /\ CacheCurrent

\* C22: the cache was never filled (empty, no timestamp), or its permissions
\* and its roles are together what the two tables held at one point in time.
C22_SnapshotIsOneRead ==
  \/ permissionsCache = EmptyCache
  \/ \E h \in held :
       /\ permissionsCache.permissions = h.permissions
       /\ permissionsCache.roles = h.roles

\* C23: the cache changes only in the step that completes a successful
\* refresh, and then all of it is replaced by the two scan results of that
\* one refresh and the time of its completion; a refresh that fails, also
\* after its first scan, leaves all of it as it was; and a decision is made
\* on the cache as one such step left it.
C23_CacheReplacedAsAWhole ==
  [][/\ permissionsCache' # permissionsCache
          => \E s \in Slots :
               /\ RefreshSucceeds(s)
               /\ permissionsCache' =
                    [timestamp |-> now,
                     permissions |-> calls[s].permissionsResult,
                     roles |-> calls[s].rolesResult]
     /\ \A s \in Slots :
          /\ RefreshFails(s) => permissionsCache' = permissionsCache
          /\ ( /\ calls[s].pc # "done"
               /\ CanPerformDone(s)'
               /\ Evaluated(calls'[s].user) )
             => ( calls'[s].outcome = "true"
                    <=> canPerformDecision(permissionsCache',
                                           calls'[s].featureName,
                                           calls'[s].user) )]_vars

\* a decision made while another call's refresh holds a newer permissions
\* scan and waits for its roles scan: it read the snapshot of the refresh
\* before
C23_Witness ==
  /\ CanPerformDone(1)
  /\ calls[1].refresh = "none"
  /\ calls[1].outcome = "true"
  /\ calls[2].op = "setPermission"
  /\ calls[2].pc = "scanRoles"
  /\ calls[2].permissionsResult # permissionsCache.permissions
  /\ permissionsCache.timestamp # 0
  /\ permissionsCache.permissions = EmptyMap

\* C24: the step in which an approve/reject call has read the leave request
\* takes the call to the same place with the same response as it would on a
\* request that differs only in the approver recorded on it.
C24_RecordedApproverIrrelevant ==
  [][\A h \in Slots :
       ( /\ runs[h].pc = "getLeave"
         /\ runs'[h].pc \in {"updateLeave", "done"}
         /\ runs'[h].item.status # "-" )
       => \A m \in {"-", "hr1"} :
            LET other == leaveRequestRead(runs[h],
                           [LeaveRequests[runs[h].id] EXCEPT !.managerId = m])
            IN /\ other.pc = runs'[h].pc
               /\ other.response = runs'[h].response]_vars

\* C25: every leave request POST /leave/request has stored is pending and
\* records as approvers: nobody when the submitter has no manager; the
\* manager alone when the manager has no manager (or no item in the users
\* table); the manager and then the manager's manager otherwise.
C25_ApproverChain ==
  \A id \in DOMAIN hris_leave.requests :
    LET r == hris_leave.requests[id]
        chain == r.approver_user_ids
        manager == hris_users[r.user_id].manager_id
        second == IF manager \in DOMAIN hris_users
                  THEN hris_users[manager].manager_id ELSE "-"
    IN /\ r.status = "pending"
       /\ Len(chain) <= 2
       /\ Len(chain) >= 1 => chain[1] = manager
       /\ chain = IF manager = "-" THEN <<>>
                  ELSE IF second = "-" THEN <<manager>>
                  ELSE <<manager, second>>

\* the request of emp1, whose manager mgr1 has the manager hr1, was stored
\* and answered 201
C25_Witness ==
  /\ jobs[1].route = "leave.request"
  /\ jobs[1].pc = "done"
  /\ jobs[1].response.status = 201
  /\ jobs[1].id \in DOMAIN hris_leave.requests
  /\ hris_leave.requests[jobs[1].id].user_id = "emp1"
  /\ hris_leave.requests[jobs[1].id].approver_user_ids = <<"mgr1", "hr1">>
  /\ hris_leave.requests[jobs[1].id].status = "pending"

\* C26: a middleware run gets an outcome whenever its own scans are
\* answered, whatever becomes of the refreshes of the other runs: it ends
\* with next(), 401, 403 or 500, and the outcome it has stays the one it has
\* until the slot is given to the next request.
C26_EveryCheckTerminates ==
  /\ (calls[1].op = "authorizeFeature") ~> MiddlewareDone(1)
  /\ [](\A s \in Slots :
          MiddlewareDone(s) => calls[s].outcome \in {"next", "401", "403", "500"})
  /\ [][\A s \in Slots :
          (MiddlewareDone(s) /\ calls'[s].op # "idle")
            => calls'[s] = calls[s]]_vars

\* the run in slot 1 was answered 500 after its own refresh while the run in
\* slot 2 still waits for its first scan
C26_Witness ==
  /\ MiddlewareDone(1)
  /\ calls[1].refresh = "ok"
  /\ calls[1].outcome = "500"
  /\ calls[2].op = "authorizeFeature"
  /\ calls[2].pc = "scanPermissions"
  /\ calls[2].calledAt <= calls[1].calledAt

\* C27: once the cache holds what the tables hold now, no step that leaves
\* the tables alone puts permissions or roles into the cache that differ
\* from the tables' (data a refresh read before the last write) under a
\* newer timestamp.
C27_CacheNeverRegresses ==
  [][~( /\ CacheCurrent
        /\ store' = store
        /\ permissionsCache'.timestamp > permissionsCache.timestamp
        /\ \/ permissionsCache'.permissions # store.permissions
           \/ permissionsCache'.roles # store.roles )]_vars

ActorReq(accessLevel, department) ==
  [user |-> TRUE, id |-> TRUE, accessLevel |-> accessLevel,
   department |-> department]

\* the pairs of actor department and employee department that give
\* canApprove's third argument the value isSameDept
DeptPairs(isSameDept) ==
  {p \in Departments \X Departments : (p[1] = p[2]) = isSameDept}

\* C30: the type-aware policy is never more permissive than the
\* department-only policy: whenever canApprove(type, level, actorDept =
\* employeeDept) is true, checkAuthority is true for an actor of that level
\* and department; and on the types leave, training, equipment, expense,
\* document and travel the two give the same answer. Stated on each call of
\* either resolver against the other resolver at the same input.
C30_TypeAwareNeverMorePermissive ==
  LET Standard == {"leave", "training", "equipment", "expense", "document",
                   "travel"}
  IN /\ approval.fn = "canApprove" =>
          \A p \in DeptPairs(approval.isSameDept) :
            LET other == checkAuthority(ActorReq(approval.accessLevel, p[1]),
                                        p[2])
            IN /\ approval.result => other
               /\ approval.requestType \in Standard
                    => approval.result = other
     /\ approval.fn = "checkAuthority" /\ approval.req.user /\ approval.req.id
          => \A t \in RequestTypes :
               LET other == canApprove(t, approval.req.accessLevel,
                                       approval.req.department
                                         = approval.employeeDepartment)
               IN /\ other => approval.result
                  /\ t \in Standard => other = approval.result

\* a manager's canApprove call on a travel request of the manager's own
\* department returned true, and so does checkAuthority for that manager
C30_Witness ==
  /\ approval.fn = "canApprove"
  /\ approval.requestType = "travel"
  /\ approval.accessLevel = 3
  /\ approval.isSameDept
  /\ approval.result
  /\ checkAuthority(ActorReq(3, "sales"), "sales")

====
